---- MODULE Spec2Model ----
(***************************************************************************)
(* jld_deploy/deploy.py: the JupyterLabDeployment orchestrator.            *)
(*                                                                         *)
(* A run is one call of _create_resources (deploy) or _destroy_resources   *)
(* (undeploy) on a JupyterLabDeployment whose parameters are resolved.     *)
(* The external processes started through _run are appended to cmds as     *)
(* their argument vectors (the status queries made by a poll are counted   *)
(* in waitfor.calls); a command run with check=True may exit non-zero,     *)
(* which raises.  The kubectl configuration (its contexts and the current  *)
(* one) is the ambient state the run changes.                              *)
(*                                                                         *)
(* What deploy() and undeploy() do before that call - parameter            *)
(* validation and normalisation, the clone of the repository and the       *)
(* rendering of the templates - is specified apart, in SpecParams and      *)
(* SpecVolume, from the parameter map handed to the constructor.  SpecRun  *)
(* joins the two: a whole run, with or without a directory of the caller   *)
(* and with or without config_only.                                        *)
(***************************************************************************)
EXTENDS Integers, Sequences, FiniteSets, TLC

VARIABLES
    mode,               \* "deploy" | "undeploy" | "waitfor" (a bare _waitfor call)
    existing_cluster,   \* self.existing_cluster
    existing_namespace, \* self.existing_namespace
    enable_logging,     \* self.enable_logging
    enable_prepuller,   \* self.enable_prepuller
    params,             \* self.params, the keys the orchestrator reads
    original_context,   \* self.original_context
    pc,                 \* the method about to run, or "done" / "raised"
    exc,                \* the exception that left the run, or None
    cmds,               \* the argument vectors handed to _run, in order
                        \* (the status queries of a poll are counted in
                        \* waitfor.calls instead)
    steps,              \* the create/destroy methods entered, in order
    returned,           \* the create/destroy methods that returned normally
    logged,             \* the warnings and completion messages logged
    waitfor,            \* the last _waitfor call: arguments and outcome
    probe,              \* what the callback of that call returns, call by call
    rendered_pv,        \* address rendered into jld-fileserver-pv-<ns>.yml
    changeset,          \* the change batch written to rr-changeset.txt
    current_context,    \* kubectl's current context (ambient)
    kubeconfig,         \* the contexts kubectl knows (ambient)
    yamlfile,           \* self.yamlfile
    enable_firefly,     \* self.enable_firefly
    b64_cache,          \* self.b64_cache
    encode_log,         \* the base64.b64encode(params[key]) calls made by
                        \* encode_value(key) and the open() calls made by
                        \* encode_file(key), in order, each with its key
    filesystem,         \* the files at the paths the parameters name (ambient)
    directory,          \* self.directory
    config_only,        \* self.config_only
    dirs,               \* the working directories that exist, with their
                        \* "deployment" subdirectories
    manifests,          \* the files under <directory>/deployment that
                        \* configuration generation copies and renders
    snapshot,           \* the deploy.<timestamp>.yml that _save_deployment_yml
                        \* writes
    nonzero,            \* the `kubectl delete` commands of the last teardown
                        \* step that exited with a non-zero status
    hosted_zones        \* the HostedZones list that `aws route53
                        \* list-hosted-zones` prints (ambient)

vars == <<mode, existing_cluster, existing_namespace, enable_logging,
          enable_prepuller, params, original_context, pc, exc, cmds, steps,
          returned, logged, waitfor, probe, rendered_pv, changeset,
          current_context, kubeconfig, yamlfile, enable_firefly, b64_cache,
          encode_log, filesystem, directory, config_only, dirs, manifests,
          snapshot, nonzero, hosted_zones>>

(***************************************************************************)
(* Bounds of the model.                                                    *)
(***************************************************************************)
\* largest try budget given to a bare _waitfor call
MaxTries == 4

(***************************************************************************)
(* Program constants.                                                      *)
(***************************************************************************)
\* _waitfor(self, callback, delay=10, tries=10)
DefaultDelay == 10
DefaultTries == 10
\* _generate_upsert_dns: self._waitfor(callback=self._get_external_ip, tries=30)
ExternalIpTries == 30
\* _destroy_pods_with_callback(self, callback, poddesc, tries=60)
PodExitTries == 60

None == "None"
\* a callback that raises instead of returning
Raise == "<raise>"

\* Python truth of a callback's return value: None and "" are false
Truthy(v) == v \notin {None, ""}

ClusterName == "demo"
Hostname == "demo.example.org"
ZoneId == "Z123"
Namespaces == {"default", "jld"}
\* the context `gcloud container clusters get-credentials` writes
ClusterContext == "gke_demo"
OtherContext == "minikube"

\* str.endswith, on the names of the model
EndsWith(s, suffix) == <<s, suffix>> \in {<<ClusterContext, ClusterName>>}

(***************************************************************************)
(* _waitfor                                                                *)
(***************************************************************************)
\* a faulty variant of waitfor_loop: the budget is tested before the result of the
\* call, so a success on the last try is reported as a timeout
RECURSIVE waitfor_loop_BudgetFirst(_, _, _, _)
waitfor_loop_BudgetFirst(callback, delay, tries, i0) ==
    LET i  == i0 + 1
        rc == callback[i]
    IN  IF rc = Raise
        THEN [rc |-> None, calls |-> i, slept |-> delay * i0,
              exc |-> "CalledProcessError"]
        ELSE IF i = tries
        THEN [rc |-> None, calls |-> i, slept |-> delay * i,
              exc |-> "RuntimeError"]
        ELSE IF Truthy(rc)
        THEN [rc |-> rc, calls |-> i, slept |-> delay * i0, exc |-> None]
        ELSE waitfor_loop_BudgetFirst(callback, delay, tries, i)

\* a faulty variant of waitfor_loop: `if i > tries`, one call too many
RECURSIVE waitfor_loop_OneMore(_, _, _, _)
waitfor_loop_OneMore(callback, delay, tries, i0) ==
    LET i  == i0 + 1
        rc == callback[i]
    IN  IF rc = Raise
        THEN [rc |-> None, calls |-> i, slept |-> delay * i0,
              exc |-> "CalledProcessError"]
        ELSE IF Truthy(rc)
        THEN [rc |-> rc, calls |-> i, slept |-> delay * i0, exc |-> None]
        ELSE IF i > tries
        THEN [rc |-> None, calls |-> i, slept |-> delay * i,
              exc |-> "RuntimeError"]
        ELSE waitfor_loop_OneMore(callback, delay, tries, i)

\* The loop of _waitfor, entered with i calls made: callback is the
\* sequence of the values the successive callback() calls give.
RECURSIVE waitfor_loop(_, _, _, _)
waitfor_loop(callback, delay, tries, i0) ==
    LET i  == i0 + 1
        rc == callback[i]
    IN  IF rc = Raise
        THEN [rc |-> None, calls |-> i, slept |-> delay * i0,
              exc |-> "CalledProcessError"]
        ELSE IF Truthy(rc)
        THEN [rc |-> rc, calls |-> i, slept |-> delay * i0, exc |-> None]
        ELSE IF i = tries
        THEN [rc |-> None, calls |-> i, slept |-> delay * i,
              exc |-> "RuntimeError"]
        ELSE waitfor_loop(callback, delay, tries, i)

\* _waitfor(callback, delay, tries): the value returned or the exception
\* raised, with the number of callback() calls made and the seconds slept
Waitfor(callback, delay, tries) == waitfor_loop(callback, delay, tries, 0)

\* the record kept of a _waitfor call
WaitforCall(name, callback, delay, tries) ==
    [callback |-> name, delay |-> delay, tries |-> tries]
        @@ Waitfor(callback, delay, tries)

\* rr-changeset.txt not written
NoChangeset == [Action |-> None, Name |-> None, TTL |-> 0, Value |-> None]

NoWaitfor ==
    [callback |-> None, delay |-> 0, tries |-> 0, rc |-> None, calls |-> 0,
     slept |-> 0, exc |-> None]

\* A callback that returns empty on its first k-1 calls and v from call k
\* on.  _waitfor stops at the first non-empty return, so what a callback
\* would return after it is never observed.
Script(k, v, tries) == [n \in 1..(tries + 1) |-> IF n < k THEN None ELSE v]

\* The calls at which the callbacks of a run first return non-empty: the
\* first two, the last two of the budget, and never within it.
TryPoints(tries) == {1, 2, tries - 1, tries, tries + 1}

RECURSIVE SeqsOf(_, _)
SeqsOf(S, n) ==
    IF n = 0 THEN {<<>>}
    ELSE {Append(s, x) : s \in SeqsOf(S, n - 1), x \in S}

(***************************************************************************)
(* _run                                                                    *)
(***************************************************************************)
\* A list of commands run one after the other with check=True, of which
\* command number f exits non-zero (f = 0: none does): the commands
\* started, and whether subprocess.CalledProcessError is raised.
RunChecked(plan, f) ==
    [issued |-> IF f = 0 THEN plan ELSE SubSeq(plan, 1, f),
     exc    |-> IF f = 0 THEN None ELSE "CalledProcessError"]

\* _run_gcloud
Gcloud(args) == <<"gcloud">> \o args \o <<"--zone">>

\* _run_kubectl_create
KubectlCreate(filename) ==
    <<"kubectl", "create", "-f", filename, "--namespace",
      params["kubernetes_cluster_namespace"]>>

\* _run_kubectl_delete: check=False, a non-zero exit is ignored
KubectlDelete(component) ==
    <<"kubectl", "delete">> \o component
        \o <<"--namespace", params["kubernetes_cluster_namespace"]>>

UseContext(context) == <<"kubectl", "config", "use-context", context>>

SetContext(context, namespace) ==
    <<"kubectl", "config", "set-context", context, "--namespace", namespace>>

CurrentContextCmd == <<"kubectl", "config", "current-context">>

Issued(c) == \E n \in 1..Len(cmds) : cmds[n] = c
Position(c) == CHOOSE n \in 1..Len(cmds) : cmds[n] = c

(***************************************************************************)
(* The working directory.                                                  *)
(***************************************************************************)
\* the directory handed to the constructor, when one is
WorkDir == "/srv/jld"

\* the directory tempfile.TemporaryDirectory() creates
TempDir == "/tmp/tmpdeploy"

\* os.getenv("TMPDIR") or "/tmp"
TMPDIR == "/tmp"

\* os.path.join(d, "deployment")
Deployment(d) == d \o "/deployment"

\* a faulty variant of Cleanup: the temporary directory is left behind
Cleanup_Keeps(ds) == ds

\* TemporaryDirectory.__exit__: the directory and what is in it are removed
Cleanup(ds) == ds \ {TempDir, Deployment(TempDir)}

\* no deploy.<timestamp>.yml was written
NoSnapshot == [source |-> None, params |-> <<>>]

(***************************************************************************)
(* The hosted zones of the DNS provider and the lookup of the zone id.     *)
(***************************************************************************)
\* hostname.split('.')
Split(hostname) ==
    IF hostname = Hostname THEN <<"demo", "example", "org">> ELSE <<hostname>>

\* '.'.join(labels)
RECURSIVE DotJoin(_)
DotJoin(labels) ==
    IF labels = <<>> THEN ""
    ELSE IF Len(labels) = 1 THEN labels[1]
    ELSE labels[1] \o "." \o DotJoin(Tail(labels))

\* domain = '.'.join(hostname.split('.')[1:])
ParentDomain(hostname) == DotJoin(Tail(Split(hostname)))

\* one entry of HostedZones; Id is "/hostedzone/<id>", kept as the components
\* that zonename.split('/') gives
Zone(name, id) == [Name |-> name, Id |-> <<"", "hostedzone", id>>]

\* a second zone of the same name (a private zone beside the public one)
PrivateZoneId == "Z456"

\* the zone lists a provider account can hold
ZoneLists ==
    {<<>>,
     <<Zone("other.org.", "Z999")>>,
     <<Zone("org.", "Z777"), Zone("example.org", "Z888")>>,
     <<Zone("example.org.", ZoneId)>>,
     <<Zone("demo.example.org.", "Z555"), Zone("example.org.", ZoneId)>>,
     <<Zone("example.org.", ZoneId), Zone("example.org.", PrivateZoneId)>>}

\* the zone lists of the runs whose orchestration is followed step by step:
\* one with the zone of the hostname and one without it
OrchestratedZoneLists ==
    {<<Zone("other.org.", "Z999")>>, <<Zone("example.org.", ZoneId)>>}

NoZoneFound == "RuntimeError"

\* a faulty variant of get_aws_zone_id: the zone is looked up under the whole
\* hostname instead of its parent domain
get_aws_zone_id_WholeName(hostname, zlist) ==
    LET domain == DotJoin(Split(hostname))
        hits == {n \in 1..Len(zlist) : zlist[n].Name = domain \o "."}
    IN  IF hits = {}
        THEN [zoneid |-> None, exc |-> NoZoneFound]
        ELSE LET z == zlist[CHOOSE n \in hits : \A m \in hits : n <= m]
             IN  [zoneid |-> z.Id[Len(z.Id)], exc |-> None]

\* _get_aws_zone_id, given the zone list the provider printed: the first
\* zone named <domain>. gives the id, and without one the RuntimeError
\* raised in the loop's wake is wrapped in another RuntimeError
get_aws_zone_id(hostname, zlist) ==
    LET domain == ParentDomain(hostname)
        hits == {n \in 1..Len(zlist) : zlist[n].Name = domain \o "."}
    IN  IF hits = {}
        THEN [zoneid |-> None, exc |-> NoZoneFound]
        ELSE LET z == zlist[CHOOSE n \in hits : \A m \in hits : n <= m]
             IN  [zoneid |-> z.Id[Len(z.Id)], exc |-> None]

(***************************************************************************)
(* The state after construction and parameter resolution.  undeploy        *)
(* builds the object without disable_prepuller and never runs              *)
(* _check_optional, so its flags keep the class defaults.                  *)
(***************************************************************************)
Init ==
    /\ mode \in {"deploy", "undeploy"}
    /\ existing_cluster \in BOOLEAN
    /\ existing_namespace \in BOOLEAN
    /\ enable_logging \in (IF mode = "deploy" THEN BOOLEAN ELSE {FALSE})
    /\ enable_prepuller \in (IF mode = "deploy" THEN BOOLEAN ELSE {TRUE})
    /\ \E ns \in Namespaces :
         params = [kubernetes_cluster_name |-> ClusterName,
                   kubernetes_cluster_namespace |-> ns,
                   hostname |-> Hostname,
                   zoneid |-> None]
    /\ original_context = None
    /\ pc = "kubecontext"
    /\ exc = None
    /\ cmds = <<>>
    /\ steps = <<>>
    /\ returned = <<>>
    /\ logged = <<>>
    /\ waitfor = NoWaitfor
    /\ probe = <<>>
    /\ rendered_pv = None
    /\ changeset = NoChangeset
    /\ kubeconfig \in SUBSET {ClusterContext, OtherContext}
    /\ current_context \in kubeconfig \cup {""}
    /\ yamlfile = None
    /\ enable_firefly = FALSE
    /\ b64_cache = <<>>
    /\ encode_log = <<>>
    /\ filesystem = <<>>
    /\ directory = IF mode = "deploy" THEN TempDir ELSE TMPDIR
    /\ config_only = FALSE
    /\ dirs = IF mode = "deploy" THEN {TempDir, Deployment(TempDir)} ELSE {}
    /\ manifests = <<>>
    /\ snapshot = NoSnapshot
    /\ nonzero = {}
    /\ hosted_zones \in OrchestratedZoneLists

\* what neither the orchestrator nor the methods around it assign
flags == <<mode, existing_cluster, existing_namespace, enable_logging,
           enable_prepuller, yamlfile, enable_firefly, b64_cache, encode_log,
           filesystem, config_only, manifests, snapshot, hosted_zones>>

\* what a block of the orchestrator never assigns
config == <<flags, directory, dirs, nonzero>>

(***************************************************************************)
(* The bodies of the two scoped blocks: the calls made, in order.          *)
(***************************************************************************)
\* a faulty variant of CreateResourcesCalls: the logging components are created
\* whether or not enable_logging is set
CreateResourcesCalls_AlwaysLogging ==
    <<"_create_gke_cluster", "_create_logging_components",
      "_create_fileserver", "_create_fs_keepalive">>
        \o (IF enable_prepuller THEN <<"_create_prepuller">> ELSE <<>>)
        \o <<"_create_jupyterhub", "_create_nginx", "_create_dns_record">>

\* a faulty variant of CreateResourcesCalls: the DNS record is created before
\* nginx, whose service gets the address the record points to
CreateResourcesCalls_DnsBeforeNginx ==
    <<"_create_gke_cluster">>
        \o (IF enable_logging THEN <<"_create_logging_components">> ELSE <<>>)
        \o <<"_create_fileserver", "_create_fs_keepalive">>
        \o (IF enable_prepuller THEN <<"_create_prepuller">> ELSE <<>>)
        \o <<"_create_jupyterhub", "_create_dns_record", "_create_nginx">>

\* _create_resources
CreateResourcesCalls ==
    <<"_create_gke_cluster">>
        \o (IF enable_logging THEN <<"_create_logging_components">> ELSE <<>>)
        \o <<"_create_fileserver", "_create_fs_keepalive">>
        \o (IF enable_prepuller THEN <<"_create_prepuller">> ELSE <<>>)
        \o <<"_create_jupyterhub", "_create_nginx", "_create_dns_record">>

\* a faulty variant of DestroyResourcesCalls: the file server is destroyed before
\* the keepalive that mounts it
DestroyResourcesCalls_Swapped ==
    <<"_switch_to_context", "_destroy_dns_record", "_destroy_nginx",
      "_destroy_jupyterhub", "_destroy_prepuller", "_destroy_fileserver",
      "_destroy_fs_keepalive", "_destroy_logging_components",
      "_destroy_gke_cluster">>

\* _destroy_resources
DestroyResourcesCalls ==
    <<"_switch_to_context", "_destroy_dns_record", "_destroy_nginx",
      "_destroy_jupyterhub", "_destroy_prepuller", "_destroy_fs_keepalive",
      "_destroy_fileserver", "_destroy_logging_components",
      "_destroy_gke_cluster">>

Block == IF mode = "deploy" THEN CreateResourcesCalls ELSE DestroyResourcesCalls

\* the call that follows `call` in the block; the block's end leaves the
\* `with` statement normally
After(call) ==
    LET n == CHOOSE m \in 1..Len(Block) : Block[m] = call
    IN  IF n < Len(Block) THEN Block[n + 1] ELSE "kubecontext:exit"

\* a faulty variant of Ran: an exception is recorded but the block goes on with
\* the next method
Ran_Continues(call, issued, e) ==
    /\ steps' = Append(steps, call)
    /\ cmds' = cmds \o issued
    /\ returned' = IF e = None THEN Append(returned, call) ELSE returned
    /\ pc' = After(call)
    /\ exc' = IF e = None THEN exc ELSE e

\* A method of the block ran: it started the commands `issued` and either
\* returned (e = None) or raised e, which leaves the block at once.
Ran(call, issued, e) ==
    /\ steps' = Append(steps, call)
    /\ cmds' = cmds \o issued
    /\ IF e = None
       THEN /\ returned' = Append(returned, call)
            /\ pc' = After(call)
            /\ exc' = exc
       ELSE /\ returned' = returned
            /\ pc' = "kubecontext:throw"
            /\ exc' = e

(***************************************************************************)
(* kubecontext: a generator-based context manager.  The code before the    *)
(* yield runs on entry; the code after it runs when the block ends         *)
(* normally.  An exception of the block is thrown into the generator at    *)
(* the yield, which has no try/finally around it.                          *)
(***************************************************************************)
\* _check_authentication, then the capture of the current context
kubecontext_enter ==
    /\ pc = "kubecontext"
    /\ \E auth \in {"ok", "gcloud failed", "not logged in", "aws failed"} :
         LET gcloud == <<"gcloud", "info", "--format", "yaml">>
             zones == <<"aws", "route53", "list-hosted-zones">>
             zone == get_aws_zone_id(params["hostname"], hosted_zones)
         IN  IF auth = "ok" /\ zone.exc = None
             THEN /\ cmds' = cmds \o <<gcloud, zones, CurrentContextCmd>>
                  /\ params' = ("zoneid" :> zone.zoneid) @@ params
                  /\ dirs' = dirs
                  /\ original_context' = IF current_context # ""
                                         THEN current_context
                                         ELSE original_context
                  /\ pc' = Block[1]
                  /\ exc' = exc
             ELSE /\ cmds' = cmds \o (IF auth \in {"gcloud failed",
                                                   "not logged in"}
                                      THEN <<gcloud>>
                                      ELSE <<gcloud, zones>>)
                  /\ pc' = "raised"
                  /\ exc' = IF auth = "gcloud failed"
                            THEN "CalledProcessError" ELSE "RuntimeError"
                  /\ dirs' = Cleanup(dirs)
                  /\ UNCHANGED <<params, original_context>>
    /\ UNCHANGED <<flags, directory, nonzero, steps, returned, logged, waitfor,
                   probe,
                   rendered_pv, changeset, current_context, kubeconfig>>

\* the generator resumed after the yield, or the block's exception thrown
\* into it
kubecontext_exit ==
    /\ pc \in {"kubecontext:exit", "kubecontext:throw"}
    /\ IF pc = "kubecontext:throw"
       THEN /\ pc' = "raised"
            /\ dirs' = Cleanup(dirs)
            /\ UNCHANGED <<cmds, current_context>>
       ELSE /\ pc' = "return"
            /\ dirs' = dirs
            /\ IF original_context # None
               THEN /\ cmds' = Append(cmds, UseContext(original_context))
                    /\ current_context' = original_context
               ELSE UNCHANGED <<cmds, current_context>>
    /\ UNCHANGED <<flags, directory, nonzero, params, original_context, exc,
                   steps, returned, logged, waitfor, probe, rendered_pv,
                   changeset, kubeconfig>>

\* _create_deployment / undeploy, after the block.  With a directory of
\* the caller _create_deployment returns right after _create_resources and
\* logs nothing; a temporary directory is removed as its `with` block ends.
finished ==
    /\ pc = "return"
    /\ pc' = "done"
    /\ IF mode = "deploy" /\ directory = TempDir
       THEN /\ dirs' = Cleanup(dirs)
            /\ directory' = None
       ELSE UNCHANGED <<dirs, directory>>
    /\ logged' =
         IF mode # "deploy"
         THEN Append(logged, <<"info", "Removal of %s complete.",
                               params["hostname"]>>)
         ELSE IF config_only
         THEN Append(logged,
                     <<"info",
                       IF directory = TempDir
                       THEN "Configuration for %s generated."
                       ELSE "Configuration for %s generated in %s.",
                       params["hostname"]>>)
         ELSE IF directory = TempDir
         THEN Append(logged, <<"info", "Deployment of %s complete.",
                               params["hostname"]>>)
         ELSE logged
    /\ UNCHANGED <<flags, nonzero, params, original_context, exc, cmds, steps,
                   returned, waitfor, probe, rendered_pv, changeset,
                   current_context, kubeconfig>>

(***************************************************************************)
(* _switch_to_context                                                      *)
(***************************************************************************)
\* _switch_to_context(name) when kubectl knows the contexts `known` and
\* command number f of its three exits non-zero (f = 0: none does): the
\* commands started, the exception raised, the context switched to.
SwitchToContext(name, known, f) ==
    LET get == <<"kubectl", "config", "get-contexts">>
        matching == {c \in known : EndsWith(c, name)}
    IN  IF f = 1
        THEN [issued |-> <<get>>, exc |-> "CalledProcessError",
              context |-> None]
        ELSE IF matching = {}
        THEN [issued |-> <<get>>, exc |-> "RuntimeError", context |-> None]
        ELSE LET context == CHOOSE c \in matching : TRUE
                 r == RunChecked(
                          <<UseContext(context),
                            SetContext(context,
                                params["kubernetes_cluster_namespace"])>>,
                          IF f = 0 THEN 0 ELSE f - 1)
             IN  [issued |-> <<get>> \o r.issued, exc |-> r.exc,
                  context |-> IF f = 2 THEN None ELSE context]

\* the first call of _destroy_resources
switch_to_context ==
    /\ pc = "_switch_to_context"
    /\ \E f \in 0..3 :
         LET sw == SwitchToContext(params["kubernetes_cluster_name"],
                                   kubeconfig, f)
         IN  /\ Ran("_switch_to_context", sw.issued, sw.exc)
             /\ current_context' = IF sw.context # None THEN sw.context
                                   ELSE current_context
    /\ UNCHANGED <<config, params, original_context, logged, waitfor, probe,
                   rendered_pv, changeset, kubeconfig>>

(***************************************************************************)
(* deploy: the methods of _create_resources                                *)
(***************************************************************************)
\* a faulty variant of OwnsCluster: existing_cluster is not looked at
OwnsCluster_Always == TRUE

\* a faulty variant of OwnsNamespace: existing_namespace is not looked at
OwnsNamespace_IgnoresExisting ==
    params["kubernetes_cluster_namespace"] # "default"

\* whether the run creates / deletes the cluster itself:
\* `if not self.existing_cluster`
OwnsCluster == ~existing_cluster

\* whether the run creates / deletes the namespace itself:
\* `if namespace != "default" and not self.existing_namespace`
OwnsNamespace ==
    /\ params["kubernetes_cluster_namespace"] # "default"
    /\ ~existing_namespace

CreateCluster ==
    Gcloud(<<"container", "clusters", "create",
             params["kubernetes_cluster_name"]>>)

GetCredentials ==
    Gcloud(<<"container", "clusters", "get-credentials",
             params["kubernetes_cluster_name"]>>)

CreateNamespace ==
    <<"kubectl", "create", "namespace", params["kubernetes_cluster_namespace"]>>

create_gke_cluster ==
    /\ pc = "_create_gke_cluster"
    /\ \E f1 \in 0..2, f2 \in 0..3, f3 \in 0..1 :
         LET name == params["kubernetes_cluster_name"]
             cluster ==
                 IF OwnsCluster
                 THEN RunChecked(<<CreateCluster, GetCredentials>>, f1)
                 ELSE RunChecked(<<>>, 0)
             known == IF OwnsCluster /\ cluster.exc = None
                      THEN kubeconfig \cup {ClusterContext}
                      ELSE kubeconfig
             sw == SwitchToContext(name, known, f2)
             ns == IF OwnsNamespace
                   THEN RunChecked(<<CreateNamespace>>, f3)
                   ELSE RunChecked(<<>>, 0)
         IN  /\ kubeconfig' = known
             /\ IF cluster.exc # None
                THEN /\ Ran("_create_gke_cluster", cluster.issued, cluster.exc)
                     /\ current_context' = current_context
                ELSE IF sw.exc # None
                THEN /\ Ran("_create_gke_cluster",
                            cluster.issued \o sw.issued, sw.exc)
                     /\ current_context' = IF sw.context # None
                                           THEN sw.context
                                           ELSE current_context
                ELSE /\ Ran("_create_gke_cluster",
                            cluster.issued \o sw.issued \o ns.issued, ns.exc)
                     /\ current_context' = sw.context
    /\ UNCHANGED <<config, params, original_context, logged, waitfor, probe,
                   rendered_pv, changeset>>

\* a method that only creates manifests, one kubectl create after the other
Creates(call, files) ==
    /\ pc = call
    /\ \E f \in 0..Len(files) :
         LET r == RunChecked([n \in 1..Len(files) |-> KubectlCreate(files[n])],
                             f)
         IN  Ran(call, r.issued, r.exc)
    /\ UNCHANGED <<config, params, original_context, logged, waitfor, probe,
                   rendered_pv, changeset, current_context, kubeconfig>>

create_logging_components ==
    Creates("_create_logging_components",
            <<"logstashrmq/logstashrmq-secrets.yml",
              "logstashrmq/logstashrmq-service.yml",
              "logstashrmq/logstashrmq-deployment.yml",
              "filebeat/filebeat-secrets.yml",
              "filebeat/filebeat-daemonset.yml">>)

\* the cluster addresses the file server's service can be given
ClusterIPs == {"10.0.0.5"}
\* the ingress addresses the nginx service can be given
ExternalIPs == {"35.1.2.3"}

\* what _create_fileserver creates before it asks for the service address
FileserverWorkload ==
    <<KubectlCreate("jld-fileserver-storageclass.yml"),
      KubectlCreate("jld-fileserver-physpvc.yml"),
      KubectlCreate("jld-fileserver-service.yml"),
      KubectlCreate("jld-fileserver-deployment.yml")>>

\* a faulty variant of FileserverVolumes: the claim is created before the
\* volume it binds to
FileserverVolumes_ClaimFirst ==
    <<KubectlCreate("jld-fileserver-pvc.yml"),
      KubectlCreate("jld-fileserver-pv-%s.yml")>>

\* what _create_fileserver creates once the address is rendered into the
\* volume's manifest
FileserverVolumes ==
    <<KubectlCreate("jld-fileserver-pv-%s.yml"),
      KubectlCreate("jld-fileserver-pvc.yml")>>

create_fileserver ==
    /\ pc = "_create_fileserver"
    /\ \E f1 \in 0..4, k \in TryPoints(DefaultTries), ip \in ClusterIPs,
          f2 \in 0..2 :
         LET first == RunChecked(FileserverWorkload, f1)
             callback == Script(k, ip, DefaultTries)
             w == WaitforCall("_get_fileserver_ip", callback, DefaultDelay,
                              DefaultTries)
             last == RunChecked(FileserverVolumes, f2)
         IN  IF first.exc # None
             THEN /\ Ran("_create_fileserver", first.issued, first.exc)
                  /\ UNCHANGED <<waitfor, probe, rendered_pv>>
             ELSE /\ waitfor' = w
                  /\ probe' = callback
                  /\ IF w.exc # None
                     THEN /\ Ran("_create_fileserver", first.issued, w.exc)
                          /\ UNCHANGED rendered_pv
                     ELSE /\ rendered_pv' = w.rc
                          /\ Ran("_create_fileserver",
                                 first.issued \o last.issued, last.exc)
    /\ UNCHANGED <<config, params, original_context, logged, changeset,
                   current_context, kubeconfig>>

create_fs_keepalive ==
    Creates("_create_fs_keepalive", <<"jld-keepalive-deployment.yml">>)

create_prepuller ==
    Creates("_create_prepuller", <<"prepuller-daemonset.yml">>)

create_jupyterhub ==
    /\ pc = "_create_jupyterhub"
    /\ \E f \in 0..5 :
         LET r == RunChecked(
                      <<KubectlCreate("jld-hub-service.yml"),
                        KubectlCreate("jld-hub-physpvc.yml"),
                        KubectlCreate("jld-hub-secrets.yml"),
                        <<"kubectl", "create", "configmap", "jld-hub-config">>,
                        KubectlCreate("jld-hub-deployment.yml")>>, f)
         IN  Ran("_create_jupyterhub", r.issued, r.exc)
    /\ UNCHANGED <<config, params, original_context, logged, waitfor, probe,
                   rendered_pv, changeset, current_context, kubeconfig>>

create_nginx ==
    Creates("_create_nginx",
            <<"tls-secrets.yml", "nginx-service.yml", "nginx-deployment.yml">>)

\* _change_dns_record: the command that submits rr-changeset.txt
ChangeResourceRecordSets ==
    <<"aws", "route53", "change-resource-record-sets", "--hosted-zone-id",
      params["zoneid"]>>

\* _create_dns_record -> _change_dns_record("create") -> _generate_upsert_dns
create_dns_record ==
    /\ pc = "_create_dns_record"
    /\ \E k \in TryPoints(ExternalIpTries), ip \in ExternalIPs, f \in 0..1 :
         LET callback == Script(k, ip, ExternalIpTries)
             w == WaitforCall("_get_external_ip", callback, DefaultDelay,
                              ExternalIpTries)
             r == RunChecked(<<ChangeResourceRecordSets>>, f)
         IN  /\ waitfor' = w
             /\ probe' = callback
             /\ IF w.exc # None
                THEN /\ Ran("_create_dns_record", <<>>, w.exc)
                     /\ UNCHANGED changeset
                ELSE /\ changeset' = [Action |-> "UPSERT",
                                      Name |-> params["hostname"],
                                      TTL |-> 60, Value |-> w.rc]
                     /\ Ran("_create_dns_record", r.issued, r.exc)
    /\ UNCHANGED <<config, params, original_context, logged, rendered_pv,
                   current_context, kubeconfig>>

(***************************************************************************)
(* undeploy: the methods of _destroy_resources                             *)
(***************************************************************************)
\* which of n commands exit non-zero: none, the first, or all
ExitSamples(n) == {{}, {1}, 1..n}

\* a faulty variant of RunDeletes: the commands run with check=True
RunDeletes_Checked(components, bad) ==
    RunChecked([n \in 1..Len(components) |-> KubectlDelete(components[n])],
               IF bad = {} THEN 0
               ELSE CHOOSE i \in bad : \A j \in bad : i <= j)

\* _run_kubectl_delete for each of the components in turn, those numbered in
\* `bad` exiting non-zero: with check=False the exit status is ignored and
\* the next command follows
RunDeletes(components, bad) ==
    [issued |-> [n \in 1..Len(components) |-> KubectlDelete(components[n])],
     exc    |-> None]

\* a method that only deletes resources
Deletes(call, components) ==
    /\ pc = call
    /\ \E bad \in ExitSamples(Len(components)) :
         LET r == RunDeletes(components, bad)
         IN  /\ nonzero' = {KubectlDelete(components[n]) : n \in bad}
             /\ Ran(call, r.issued, r.exc)
    /\ UNCHANGED <<flags, directory, dirs, params, original_context, logged,
                   waitfor, probe, rendered_pv, changeset, current_context,
                   kubeconfig>>

\* what dns.resolver.query(host, 'A') can answer: the record's TTL and
\* address, or no answer (it raises)
DnsAnswers == {[ttl |-> t, ip |-> a] : t \in {60, 300}, a \in ExternalIPs}
NoAnswer == [ttl |-> 0, ip |-> None]

\* _change_dns_record("delete") when the lookup gives `answer` and, for
\* f = 1, the aws command exits non-zero: the command started, the
\* exception raised, and the change batch left in rr-changeset.txt
ChangeDnsRecordDelete(answer, f) ==
    IF answer = NoAnswer
    THEN [issued |-> <<>>, exc |-> "NXDOMAIN", changeset |-> changeset]
    ELSE LET r == RunChecked(<<ChangeResourceRecordSets>>, f)
         IN  [issued |-> r.issued, exc |-> r.exc,
              changeset |-> [Action |-> "DELETE", Name |-> params["hostname"],
                             TTL |-> answer.ttl, Value |-> answer.ip]]

\* a faulty variant of DestroyDnsRecord: no try/except around the change
DestroyDnsRecord_Propagates(answer, f) ==
    ChangeDnsRecordDelete(answer, f) @@ [logged |-> <<>>]

\* _destroy_dns_record: _change_dns_record("delete") inside
\* try/except Exception, which logs a warning and goes on
DestroyDnsRecord(answer, f) ==
    LET c == ChangeDnsRecordDelete(answer, f)
    IN  [issued |-> c.issued, exc |-> None, changeset |-> c.changeset,
         logged |-> IF c.exc # None
                    THEN <<<<"warn", "Failed to destroy DNS record", c.exc>>>>
                    ELSE <<>>]

destroy_dns_record ==
    /\ pc = "_destroy_dns_record"
    /\ \E answer \in DnsAnswers \cup {NoAnswer}, f \in 0..1 :
         LET d == DestroyDnsRecord(answer, f)
         IN  /\ changeset' = d.changeset
             /\ logged' = logged \o d.logged
             /\ Ran("_destroy_dns_record", d.issued, d.exc)
    /\ UNCHANGED <<config, params, original_context, waitfor, probe,
                   rendered_pv, current_context, kubeconfig>>

destroy_nginx ==
    Deletes("_destroy_nginx",
            <<<<"deployment", "jld-nginx">>, <<"svc", "jld-nginx">>,
              <<"secret", "tls">>>>)

destroy_jupyterhub ==
    Deletes("_destroy_jupyterhub",
            <<<<"deployment", "jld-hub">>, <<"configmap", "jld-hub-config">>,
              <<"secret", "jld-hub">>, <<"pvc", "jld-hub-physpvc">>,
              <<"svc", "jld-hub">>>>)

destroy_prepuller ==
    Deletes("_destroy_prepuller", <<<<"daemonset", "prepuller">>>>)

\* a faulty variant of DestroyPodsWithCallback: the failure is swallowed whether or
\* not the cluster is kept
DestroyPodsWithCallback_Swallows(w, poddesc) ==
    IF w.exc # None
    THEN [exc |-> None,
          logged |-> <<<<"warn", "All pods did not exit.  Continuing.",
                         poddesc>>>>]
    ELSE [exc |-> None, logged |-> <<<<"warn", "All pods exited.", poddesc>>>>]

\* a faulty variant of DestroyPodsWithCallback: no try/except around _waitfor
DestroyPodsWithCallback_Propagates(w, poddesc) ==
    IF w.exc # None
    THEN [exc |-> w.exc, logged |-> <<>>]
    ELSE [exc |-> None, logged |-> <<<<"warn", "All pods exited.", poddesc>>>>]

\* _destroy_pods_with_callback(callback, poddesc), given the outcome w of
\* its _waitfor call: the exception it lets through and what it logs
DestroyPodsWithCallback(w, poddesc) ==
    IF w.exc # None
    THEN IF existing_cluster
         THEN [exc |-> w.exc, logged |-> <<>>]
         ELSE [exc |-> None,
               logged |-> <<<<"warn", "All pods did not exit.  Continuing.",
                              poddesc>>>>]
    ELSE [exc |-> None, logged |-> <<<<"warn", "All pods exited.", poddesc>>>>]

\* a method that deletes resources and then polls until its pods are gone:
\* _check_pods_gone gives True once no pod is left, None while one is, and
\* raises when `kubectl get pods` exits non-zero
DeletesAndWaits(call, components, callback_name, poddesc) ==
    /\ pc = call
    /\ \E bad \in ExitSamples(Len(components)),
          k \in TryPoints(PodExitTries), v \in {"True", Raise} :
         LET r == RunDeletes(components, bad)
             callback == Script(k, v, PodExitTries)
             w == WaitforCall(callback_name, callback, DefaultDelay,
                              PodExitTries)
             d == DestroyPodsWithCallback(w, poddesc)
         IN  /\ nonzero' = {KubectlDelete(components[n]) : n \in bad}
             /\ IF r.exc # None
                THEN /\ Ran(call, r.issued, r.exc)
                     /\ UNCHANGED <<waitfor, probe, logged>>
                ELSE /\ waitfor' = w
                     /\ probe' = callback
                     /\ logged' = logged \o d.logged
                     /\ Ran(call, r.issued, d.exc)
    /\ UNCHANGED <<flags, directory, dirs, params, original_context,
                   rendered_pv, changeset, current_context, kubeconfig>>

destroy_fs_keepalive ==
    DeletesAndWaits("_destroy_fs_keepalive",
                    <<<<"deployment", "jld-keepalive">>>>,
                    "_check_keepalive_gone", "keepalive")

destroy_fileserver ==
    DeletesAndWaits("_destroy_fileserver",
                    <<<<"pvc", "jld-fileserver-home">>,
                      <<"pv", "jld-fileserver-home-%s">>,
                      <<"service", "jld-fileserver">>,
                      <<"pvc", "jld-fileserver-physpvc">>,
                      <<"deployment", "jld-fileserver">>,
                      <<"storageclass", "fast">>>>,
                    "_check_fileserver_gone", "fileserver")

destroy_logging_components ==
    Deletes("_destroy_logging_components",
            <<<<"daemonset", "filebeat">>, <<"secret", "filebeat">>,
              <<"deployment", "logstash">>, <<"service", "logstashrmq">>,
              <<"secret", "logstashrmq">>>>)

DeleteNamespace ==
    <<"kubectl", "delete", "namespace", params["kubernetes_cluster_namespace"]>>

DeleteCluster ==
    Gcloud(<<"-q", "container", "clusters", "delete",
             params["kubernetes_cluster_name"]>>)

destroy_gke_cluster ==
    /\ pc = "_destroy_gke_cluster"
    /\ \E f1 \in 0..3, f2 \in 0..1 :
         LET ns == IF OwnsNamespace
                   THEN RunChecked(
                            <<CurrentContextCmd>>
                              \o (IF current_context # ""
                                  THEN <<SetContext(current_context, "default")>>
                                  ELSE <<>>)
                              \o <<DeleteNamespace>>,
                            IF current_context = "" /\ f1 = 3 THEN 0 ELSE f1)
                   ELSE RunChecked(<<>>, 0)
             cluster == IF OwnsCluster
                        THEN RunChecked(<<DeleteCluster>>, f2)
                        ELSE RunChecked(<<>>, 0)
         IN  IF ns.exc # None
             THEN Ran("_destroy_gke_cluster", ns.issued, ns.exc)
             ELSE Ran("_destroy_gke_cluster", ns.issued \o cluster.issued,
                      cluster.exc)
    /\ UNCHANGED <<config, params, original_context, logged, waitfor, probe,
                   rendered_pv, changeset, current_context, kubeconfig>>

(***************************************************************************)
(* The run                                                                 *)
(***************************************************************************)
Next ==
    \/ kubecontext_enter
    \/ create_gke_cluster
    \/ create_logging_components
    \/ create_fileserver
    \/ create_fs_keepalive
    \/ create_prepuller
    \/ create_jupyterhub
    \/ create_nginx
    \/ create_dns_record
    \/ switch_to_context
    \/ destroy_dns_record
    \/ destroy_nginx
    \/ destroy_jupyterhub
    \/ destroy_prepuller
    \/ destroy_fs_keepalive
    \/ destroy_fileserver
    \/ destroy_logging_components
    \/ destroy_gke_cluster
    \/ kubecontext_exit
    \/ finished

Spec == Init /\ [][Next]_vars

(***************************************************************************)
(* A bare _waitfor call, on any callback and any try budget                *)
(***************************************************************************)
\* what a callback can give on one call
ProbeValues == {None, "", "10.0.0.5", "True", Raise}

InitWaitfor ==
    /\ mode = "waitfor"
    /\ existing_cluster = FALSE
    /\ existing_namespace = FALSE
    /\ enable_logging = FALSE
    /\ enable_prepuller = TRUE
    /\ params = [kubernetes_cluster_name |-> ClusterName,
                 kubernetes_cluster_namespace |-> "default",
                 hostname |-> Hostname,
                 zoneid |-> None]
    /\ original_context = None
    /\ pc = "_waitfor"
    /\ exc = None
    /\ cmds = <<>>
    /\ steps = <<>>
    /\ returned = <<>>
    /\ logged = <<>>
    /\ \E delay \in {0, DefaultDelay}, tries \in 1..MaxTries :
         waitfor = [NoWaitfor EXCEPT !.callback = "callback",
                                     !.delay = delay, !.tries = tries]
    /\ probe \in SeqsOf(ProbeValues, MaxTries + 1)
    /\ rendered_pv = None
    /\ changeset = NoChangeset
    /\ kubeconfig = {}
    /\ current_context = ""
    /\ yamlfile = None
    /\ enable_firefly = FALSE
    /\ b64_cache = <<>>
    /\ encode_log = <<>>
    /\ filesystem = <<>>
    /\ directory = None
    /\ config_only = FALSE
    /\ dirs = {}
    /\ manifests = <<>>
    /\ snapshot = NoSnapshot
    /\ nonzero = {}
    /\ hosted_zones = <<>>

waitfor_call ==
    /\ pc = "_waitfor"
    /\ LET w == WaitforCall(waitfor.callback, probe, waitfor.delay,
                            waitfor.tries)
       IN  /\ waitfor' = w
           /\ exc' = w.exc
           /\ pc' = IF w.exc = None THEN "done" ELSE "raised"
    /\ UNCHANGED <<config, params, original_context, cmds, steps, returned,
                   logged, probe, rendered_pv, changeset, current_context,
                   kubeconfig>>

SpecWaitfor == InitWaitfor /\ [][waitfor_call]_vars

(***************************************************************************)
(* Parameter resolution: what deploy() and undeploy() do before the        *)
(* orchestrator runs.  self.params maps a key to a string, to an integer   *)
(* (the keys of IntKeys) or, for the two rendered sizes, to                *)
(* <<number, unit>>.  A list is written as the string of its display,      *)
(* "[]" being the empty one.                                               *)
(***************************************************************************)
DEFAULT_GKE_ZONE == "us-central1-a"
DEFAULT_GKE_MACHINE_TYPE == "n1-standard-2"
DEFAULT_GKE_NODE_COUNT == 2
DEFAULT_VOLUME_SIZE_GB == 20
\* _check_optional: self.params['dhparam_bits'] = 2048
DefaultDhparamBits == 2048
DefaultSessionDbUrl == "sqlite:////home/jupyter/jupyterhub.sqlite"

REQUIRED_PARAMETER_NAMES == <<"kubernetes_cluster_name", "hostname">>

REQUIRED_DEPLOYMENT_PARAMETER_NAMES ==
    REQUIRED_PARAMETER_NAMES
        \o <<"github_client_id", "github_client_secret",
             "github_organization_whitelist", "tls_cert", "tls_key",
             "tls_root_chain">>

\* _check_optional: logging_vars
logging_vars ==
    <<"rabbitmq_pan_password", "rabbitmq_target_host",
      "rabbitmq_target_vhost", "log_shipper_name", "beats_key", "beats_ca",
      "beats_cert">>

Range(s) == {s[n] : n \in 1..Len(s)}

\* the keys whose values are integers
IntKeys == {"volume_size_gigabytes", "gke_node_count", "dhparam_bits"}

\* `not v`, for the value v of a key: 0, '' and [] are false
Falsy(key, v) == IF key \in IntKeys THEN v = 0 ELSE v \in {"", "[]"}

\* d[k] = v
SetItem(d, k, v) == (k :> v) @@ d

\* _empty_param, on the parameter map p
empty_param(p, key) == key \notin DOMAIN p \/ Falsy(key, p[key])

\* _any_empty
any_empty(p, keylist) == \E key \in Range(keylist) : empty_param(p, key)

\* hname.translate({ord('.'): '-'})
Translate(hname) ==
    IF hname = Hostname THEN "demo-example-org" ELSE hname

\* ','.join(whitelist)
Join(whitelist) ==
    IF whitelist = "['lsst', 'lsst-sqre']" THEN "lsst,lsst-sqre"
    ELSE IF whitelist = "[]" THEN ""
    ELSE whitelist

ClusterNameUnset ==
    "ValueError: 'kubernetes_cluster_name' must be set, either explicitly or from 'hostname'."

RequiredUnset ==
    "ValueError: All parameters '['kubernetes_cluster_name', 'hostname']' must be specified!"

VolumeTooSmall == "ValueError: Shared volume must be at least 1 GiB!"

\* _get_cluster_info: the parameter map it leaves and the exception raised
get_cluster_info(p) ==
    IF empty_param(p, "kubernetes_cluster_name")
    THEN [params |-> IF ~empty_param(p, "hostname")
                     THEN SetItem(p, "kubernetes_cluster_name",
                                  Translate(p["hostname"]))
                     ELSE p,
          logged |-> IF ~empty_param(p, "hostname")
                     THEN <<<<"warn", "Using default derived cluster name '%s'",
                              Translate(p["hostname"])>>>>
                     ELSE <<>>,
          exc    |-> ClusterNameUnset]
    ELSE LET p1 == IF empty_param(p, "kubernetes_cluster_namespace")
                   THEN SetItem(p, "kubernetes_cluster_namespace", "default")
                   ELSE p
             p2 == IF empty_param(p1, "gke_zone")
                   THEN SetItem(p1, "gke_zone", DEFAULT_GKE_ZONE)
                   ELSE p1
         IN  [params |-> p2, logged |-> <<>>, exc |-> None]

\* _validate_deployment_params, after _get_cluster_info returned p
validate_after_cluster_info(p) ==
    IF any_empty(p, REQUIRED_PARAMETER_NAMES)
    THEN [params |-> p, logged |-> <<>>, exc |-> RequiredUnset]
    ELSE LET defaulted == empty_param(p, "volume_size_gigabytes")
             p1 == IF defaulted
                   THEN SetItem(p, "volume_size_gigabytes",
                                DEFAULT_VOLUME_SIZE_GB)
                   ELSE p
             warned == IF defaulted
                       THEN <<<<"warn", "Using default volume size: 20GiB",
                                "">>>>
                       ELSE <<>>
         IN  IF p1["volume_size_gigabytes"] < 1
             THEN [params |-> p1, logged |-> warned, exc |-> VolumeTooSmall]
             ELSE LET p2 == IF empty_param(p1, "gke_machine_type")
                            THEN SetItem(p1, "gke_machine_type",
                                         DEFAULT_GKE_MACHINE_TYPE)
                            ELSE p1
                      p3 == IF empty_param(p2, "gke_node_count")
                            THEN SetItem(p2, "gke_node_count",
                                         DEFAULT_GKE_NODE_COUNT)
                            ELSE p2
                  IN  [params |-> p3, logged |-> warned, exc |-> None]

\* _validate_deployment_params
validate_deployment_params(p) ==
    LET info == get_cluster_info(p)
    IN  IF info.exc # None
        THEN info
        ELSE LET rest == validate_after_cluster_info(info.params)
             IN  [rest EXCEPT !.logged = info.logged \o rest.logged]

(***************************************************************************)
(* int(0.95 * sz): the product of two doubles, truncated.  The double      *)
(* nearest to 0.95 is 0x1.e666666666666p-1, the integer 0x1e666666666666   *)
(* over 2^53; the integer is kept in three digits of base 2^18, most       *)
(* significant first.  The exact product is rounded to 53 significant      *)
(* bits, ties to even, as the multiplication does.                         *)
(***************************************************************************)
Digit == 2 ^ 18
Mantissa095 == <<124518, 104857, 157286>>

RECURSIVE BitLength(_)
BitLength(x) == IF x = 0 THEN 0 ELSE 1 + BitLength(x \div 2)

IntOfProduct095(sz) ==
    LET c0 == Mantissa095[3] * sz
        c1 == Mantissa095[2] * sz + c0 \div Digit
        c2 == Mantissa095[1] * sz + c1 \div Digit
        p0 == c0 % Digit
        p1 == c1 % Digit
        \* the bits of the product beyond the 53 a double keeps
        d    == BitLength(c2) + 36 - 53
        r    == IF d > 0 THEN p0 % (2 ^ d) ELSE 0
        half == IF d > 0 THEN 2 ^ (d - 1) ELSE 1
        up   == r > half \/ (r = half /\ (p0 \div (2 ^ d)) % 2 = 1)
        q0   == p0 - r + (IF d > 0 /\ up THEN 2 ^ d ELSE 0)
        q1   == p1 + q0 \div Digit
        q2   == c2 + q1 \div Digit
    IN  q2 \div (2 ^ 17)

\* a faulty variant of nfs_volume_size: `if sz >= 1`, so one gibibyte is
\* scaled like the larger sizes
nfs_volume_size_ScalesOne(sz) ==
    IF sz >= 1 THEN <<IntOfProduct095(sz), "Gi">> ELSE <<950, "Mi">>

\* _normalize_params: nfs_sz, as <<number, unit>>
nfs_volume_size(sz) ==
    IF sz > 1 THEN <<IntOfProduct095(sz), "Gi">> ELSE <<950, "Mi">>

\* _normalize_params: str(sz) + "Gi", as <<number, unit>>
volume_size(sz) == <<sz, "Gi">>

\* "https://%s/hub/oauth_callback" % hostname
CallbackUrl(hostname) == "https://" \o hostname \o "/hub/oauth_callback"

OpensslMissing == "ValueError: openssl not on search path!"

\* a faulty variant of check_optional: logging is enabled as soon as one key of the
\* group is set, and the keys left out stay as they are
check_optional_AnySet(p, firefly, logs, openssl) ==
    LET p1 == IF empty_param(p, "firefly_admin_password")
              THEN SetItem(p, "firefly_admin_password", "")
              ELSE p
        f1 == firefly \/ ~empty_param(p, "firefly_admin_password")
        nologs == \A l \in Range(logging_vars) : empty_param(p1, l)
        p2 == IF nologs
              THEN [k \in DOMAIN p1 \cup Range(logging_vars) |->
                      IF k \in Range(logging_vars) THEN "" ELSE p1[k]]
              ELSE p1
        l1 == logs \/ ~nologs
        p3 == IF empty_param(p2, "session_db_url")
              THEN SetItem(p2, "session_db_url", DefaultSessionDbUrl)
              ELSE p2
        nodh == empty_param(p3, "tls_dhparam")
        p4 == IF nodh /\ openssl /\ empty_param(p3, "dhparam_bits")
              THEN SetItem(p3, "dhparam_bits", DefaultDhparamBits)
              ELSE p3
    IN  [params |-> p4, enable_firefly |-> f1, enable_logging |-> l1,
         exc |-> IF nodh /\ ~openssl THEN OpensslMissing ELSE None]

\* _check_optional, on the parameter map p and the two flags; openssl tells
\* whether _which finds the program
check_optional(p, firefly, logs, openssl) ==
    LET p1 == IF empty_param(p, "firefly_admin_password")
              THEN SetItem(p, "firefly_admin_password", "")
              ELSE p
        f1 == firefly \/ ~empty_param(p, "firefly_admin_password")
        nologs == any_empty(p1, logging_vars)
        p2 == IF nologs
              THEN [k \in DOMAIN p1 \cup Range(logging_vars) |->
                      IF k \in Range(logging_vars) THEN "" ELSE p1[k]]
              ELSE p1
        l1 == logs \/ ~nologs
        p3 == IF empty_param(p2, "session_db_url")
              THEN SetItem(p2, "session_db_url", DefaultSessionDbUrl)
              ELSE p2
        nodh == empty_param(p3, "tls_dhparam")
        p4 == IF nodh /\ openssl /\ empty_param(p3, "dhparam_bits")
              THEN SetItem(p3, "dhparam_bits", DefaultDhparamBits)
              ELSE p3
    IN  [params |-> p4, enable_firefly |-> f1, enable_logging |-> l1,
         exc |-> IF nodh /\ ~openssl THEN OpensslMissing ELSE None]

\* _normalize_params
normalize_params(p, firefly, logs, openssl) ==
    LET sz == p["volume_size_gigabytes"]
        p1 == SetItem(p, "volume_size", volume_size(sz))
        p2 == SetItem(p1, "nfs_volume_size", nfs_volume_size(sz))
        p3 == SetItem(p2, "github_callback_url", CallbackUrl(p2["hostname"]))
    IN  IF "github_organization_whitelist" \notin DOMAIN p3
        THEN [params |-> p3, enable_firefly |-> firefly,
              enable_logging |-> logs,
              exc |-> "KeyError: 'github_organization_whitelist'"]
        ELSE check_optional(
                 SetItem(p3, "github_organization_whitelist",
                         Join(p3["github_organization_whitelist"])),
                 firefly, logs, openssl)

(***************************************************************************)
(* Rendering.  A rendering state is the parameter map, the cache of        *)
(* encodings, the log of the encodings and file reads made, and the        *)
(* exception raised, after which nothing more is evaluated.                *)
(***************************************************************************)
\* largest number of *.template.yml files in the cloned repository
MaxTemplates == 2

KeyError(key) == "KeyError: '" \o key \o "'"

\* _empty(input_dict, k), on a dict of strings
empty(input_dict, k) == ~(k \in DOMAIN input_dict /\ input_dict[k] # "")

\* base64.b64encode(val).decode('utf-8'): encoding nothing gives ''
b64encode(val) == IF val = "" THEN "" ELSE "base64(" \o val \o ")"

\* encode_value
encode_value(st, key) ==
    IF st.exc # None \/ ~empty(st.cache, key) THEN st
    ELSE IF key \notin DOMAIN st.params
    THEN [st EXCEPT !.exc = KeyError(key)]
    ELSE [st EXCEPT !.cache = SetItem(@, key, b64encode(st.params[key])),
                    !.log = Append(@, <<"b64encode", key>>)]

\* a faulty variant of encode_file: no `except IOError` around the open
encode_file_Raises(st, key) ==
    IF st.exc # None THEN st
    ELSE IF key \notin DOMAIN st.params
    THEN [st EXCEPT !.exc = KeyError(key)]
    ELSE LET path == st.params[key]
             cp   == path \o "_contents"
             opened == [st EXCEPT !.log = Append(@, <<"open", key>>)]
         IN  IF ~empty(st.cache, cp) THEN st
             ELSE IF path \in DOMAIN filesystem
             THEN LET enc == encode_value(
                                 [opened EXCEPT !.params =
                                     SetItem(@, path, filesystem[path])],
                                 path)
                  IN  [enc EXCEPT !.cache = SetItem(@, cp, enc.cache[path])]
             ELSE [opened EXCEPT !.exc = "FileNotFoundError"]

\* encode_file
encode_file(st, key) ==
    IF st.exc # None THEN st
    ELSE IF key \notin DOMAIN st.params
    THEN [st EXCEPT !.exc = KeyError(key)]
    ELSE LET path == st.params[key]
             cp   == path \o "_contents"
             opened == [st EXCEPT !.log = Append(@, <<"open", key>>)]
         IN  IF ~empty(st.cache, cp) THEN st
             ELSE IF path \in DOMAIN filesystem
             THEN LET enc == encode_value(
                                 [opened EXCEPT !.params =
                                     SetItem(@, path, filesystem[path])],
                                 path)
                  IN  [enc EXCEPT !.cache = SetItem(@, cp, enc.cache[path])]
             ELSE [opened EXCEPT !.cache = SetItem(@, cp, "")]

\* p[key]
getitem(st, key) ==
    IF st.exc = None /\ key \notin DOMAIN st.params
    THEN [st EXCEPT !.exc = KeyError(key)]
    ELSE st

\* _substitute: the arguments of tpl.render, in the order they are evaluated,
\* each with the way its value is got, the key read and the name bound
SubstituteArgs ==
    <<<<"p", "kubernetes_cluster_name",
        "CLUSTERNAME">>,
      <<"encode_value", "github_client_id",
        "GITHUB_CLIENT_ID">>,
      <<"encode_value", "github_callback_url",
        "GITHUB_OAUTH_CALLBACK_URL">>,
      <<"encode_value", "github_organization_whitelist",
        "GITHUB_ORGANIZATION_WHITELIST">>,
      <<"encode_value", "github_client_secret",
        "GITHUB_SECRET">>,
      <<"encode_value", "session_db_url",
        "SESSION_DB_URL">>,
      <<"encode_value", "crypto_key",
        "JUPYTERHUB_CRYPTO_KEY">>,
      <<"p", "kubernetes_cluster_namespace",
        "CLUSTER_IDENTIFIER">>,
      <<"p", "nfs_volume_size",
        "SHARED_VOLUME_SIZE">>,
      <<"p", "volume_size",
        "PHYSICAL_SHARED_VOLUME_SIZE">>,
      <<"encode_file", "tls_root_chain",
        "ROOT_CHAIN_PEM">>,
      <<"encode_value", "dhparams",
        "DHPARAM_PEM">>,
      <<"encode_file", "tls_cert",
        "TLS_CRT">>,
      <<"encode_file", "tls_key",
        "TLS_KEY">>,
      <<"p", "hostname",
        "HOSTNAME">>,
      <<"encode_value", "firefly_admin_password",
        "FIREFLY_ADMIN_PASSWORD">>,
      <<"encode_file", "beats_ca",
        "CA_CERTIFICATE">>,
      <<"encode_file", "beats_cert",
        "BEATS_CERTIFICATE">>,
      <<"encode_file", "beats_key",
        "BEATS_KEY">>,
      <<"p", "log_shipper_name",
        "SHIPPER_NAME">>,
      <<"encode_value", "rabbitmq_pan_password",
        "RABBITMQ_PAN_PASSWORD">>,
      <<"p", "rabbitmq_target_host",
        "RABBITMQ_TARGET_HOST">>,
      <<"p", "rabbitmq_target_vhost",
        "RABBITMQ_TARGET_VHOST">>>>

RECURSIVE substitute_from(_, _)
substitute_from(st, n) ==
    IF n > Len(SubstituteArgs) THEN st
    ELSE LET how == SubstituteArgs[n][1]
             key == SubstituteArgs[n][2]
             evaluated == IF how = "encode_value" THEN encode_value(st, key)
                          ELSE IF how = "encode_file" THEN encode_file(st, key)
                          ELSE getitem(st, key)
         IN  IF evaluated.exc # None THEN evaluated
             ELSE substitute_from(evaluated, n + 1)

\* _substitute
substitute(st) == substitute_from(st, 1)

\* A file is named by what precedes its suffix and by its suffix; its text
\* is given by the names it refers to, each still a placeholder {{NAME}} or
\* replaced by a value.
TemplateSuffix == ".template.yml"
Placeholder(name) == [ph |-> name]
Text(value) == [text |-> value]
TemplateText(names) == [name \in names |-> Placeholder(name)]

\* fnmatch.filter(filenames, '*.template.yml')
IsTemplate(file) == file[2] = TemplateSuffix

\* templatefile[:-13] + ".yml": the last 13 characters are the suffix
\* '.template.yml'
DestFile(templatefile) == <<templatefile[1], ".yml">>

\* the keyword arguments of tpl.render that _substitute computes in the
\* rendering state st
RenderArgs(st) ==
    [n \in 1..Len(SubstituteArgs) |->
        LET how == SubstituteArgs[n][1]
            key == SubstituteArgs[n][2]
        IN  [name  |-> SubstituteArgs[n][3],
             value |-> Text(IF how = "p" THEN st.params[key]
                            ELSE IF how = "encode_value" THEN st.cache[key]
                            ELSE st.cache[st.params[key] \o "_contents"])]]

\* a faulty variant of Bindings: NFS_SERVER_IP_ADDRESS is not handed to
\* tpl.render, and a name that is not bound renders as nothing
Bindings_NoAddress(st) == RenderArgs(st)

\* all the keyword arguments of tpl.render: NFS_SERVER_IP_ADDRESS is bound
\* to the text '{{NFS_SERVER_IP_ADDRESS}}', its own placeholder
Bindings(st) ==
    RenderArgs(st)
        \o <<[name  |-> "NFS_SERVER_IP_ADDRESS",
              value |-> Placeholder("NFS_SERVER_IP_ADDRESS")]>>

\* tpl.render(**bindings): a placeholder becomes the value bound to its
\* name, or nothing when the name is not bound
Render(text, bindings) ==
    [name \in DOMAIN text |->
        IF "ph" \notin DOMAIN text[name] THEN text[name]
        ELSE IF \E n \in 1..Len(bindings) : bindings[n].name = text[name].ph
        THEN LET n == CHOOSE m \in 1..Len(bindings) :
                          bindings[m].name = text[name].ph
             IN  bindings[n].value
        ELSE Text("")]

\* _substitute_file: the rendering state and the files left
substitute_file(st, files, templatefile) ==
    LET after == substitute(st)
    IN  IF after.exc # None THEN [st |-> after, files |-> files]
        ELSE [st    |-> after,
              files |-> [f \in (DOMAIN files \cup {DestFile(templatefile)})
                                   \ {templatefile} |->
                            IF f = DestFile(templatefile)
                            THEN Render(files[templatefile], Bindings(after))
                            ELSE files[f]]]

\* the loop of _substitute_templates over the template files found
RECURSIVE substitute_files(_, _, _)
substitute_files(st, files, templates) ==
    IF templates = <<>> \/ st.exc # None THEN [st |-> st, files |-> files]
    ELSE LET r == substitute_file(st, files, Head(templates))
         IN  substitute_files(r.st, r.files, Tail(templates))

\* os.urandom(16).hex() + ";" + os.urandom(16).hex()
CryptoKey == "00112233445566778899aabbccddeeff;ffeeddccbbaa99887766554433221100"

\* a crypto_key that came with the parameter map
SuppliedCryptoKey ==
    "0f1e2d3c4b5a69788796a5b4c3d2e1f0;f0e1d2c3b4a5968778695a4b3c2d1e0f"

\* _generate_crypto_key
generate_crypto_key(p) == SetItem(p, "crypto_key", CryptoKey)

\* str(bits)
Str(bits) == IF bits = DefaultDhparamBits THEN "2048" ELSE "bits"

\* _generate_dhparams: the command run, the parameter map left and the
\* exception raised; ok tells whether openssl exits with 0
generate_dhparams(p, ok) ==
    IF empty_param(p, "tls_dhparam")
    THEN [issued |-> <<<<"openssl", "dhparam", Str(p["dhparam_bits"])>>>>,
          params |-> IF ok THEN SetItem(p, "dhparams", "DH PARAMETERS") ELSE p,
          exc    |-> IF ok THEN None ELSE "CalledProcessError"]
    ELSE IF p["tls_dhparam"] \in DOMAIN filesystem
    THEN [issued |-> <<>>,
          params |-> SetItem(p, "dhparams", filesystem[p["tls_dhparam"]]),
          exc    |-> None]
    ELSE [issued |-> <<>>, params |-> p, exc |-> "FileNotFoundError"]

(***************************************************************************)
(* The manifests of the cloned repository, and the snapshot.               *)
(***************************************************************************)
\* the persistent-volume manifest of the file server
FileserverPv == "fileserver/jld-fileserver-pv"

\* the template files of the repository, the file server's first, each
\* with the names its text refers to
RepoTemplates ==
    <<[file  |-> <<FileserverPv, TemplateSuffix>>,
       names |-> {"CLUSTER_IDENTIFIER", "SHARED_VOLUME_SIZE",
                  "NFS_SERVER_IP_ADDRESS"}],
      [file  |-> <<"jupyterhub/jld-hub-secrets", TemplateSuffix>>,
       names |-> {"GITHUB_CLIENT_ID", "GITHUB_SECRET", "SESSION_DB_URL",
                  "JUPYTERHUB_CRYPTO_KEY"}],
      [file  |-> <<"nginx/tls-secrets", TemplateSuffix>>,
       names |-> {"TLS_CRT", "TLS_KEY", "ROOT_CHAIN_PEM", "DHPARAM_PEM"}],
      [file  |-> <<"logstashrmq/logstashrmq-secrets", TemplateSuffix>>,
       names |-> {"RABBITMQ_PAN_PASSWORD", "BEATS_KEY"}]>>

\* a manifest of the repository that is no template
StaticManifest == <<"fileserver/jld-fileserver-service", ".yml">>

\* what shutil.copytree leaves under "deployment" when the repository has
\* n template files
Repo(n) ==
    [f \in {RepoTemplates[i].file : i \in 1..n} \cup {StaticManifest} |->
        IF f = StaticManifest THEN TemplateText({})
        ELSE LET i == CHOOSE j \in 1..n : RepoTemplates[j].file = f
             IN  TemplateText(RepoTemplates[i].names)]

\* self.components, for those that have a template above: the order in
\* which os.walk finds the template files
WalkOrder ==
    <<RepoTemplates[4].file, RepoTemplates[1].file, RepoTemplates[2].file,
      RepoTemplates[3].file>>

\* matches: the template files found under the components
Found(files) ==
    SelectSeq(WalkOrder, LAMBDA f : f \in DOMAIN files /\ IsTemplate(f))

\* _rename_fileserver_template: os.rename(src, tgt)
rename_fileserver_template(files) ==
    LET src == <<FileserverPv, ".yml">>
        tgt == <<FileserverPv, TemplateSuffix>>
    IN  [f \in (DOMAIN files \cup {tgt}) \ {src} |->
            IF f = tgt THEN files[src] ELSE files[f]]

\* the (size, unit) pairs that stand for the size strings
SizeKeys == {"nfs_volume_size", "volume_size"}

\* _clean_param_copy
clean_param_copy(p) ==
    LET pathvars == {"tls_cert", "tls_key", "tls_root_chain", "beats_cert",
                     "beats_key", "beats_ca"}
        fullpathvars == {p[k] : k \in {q \in pathvars \cap DOMAIN p :
                                           ~Falsy(q, p[q])}}
        kept == {k \in DOMAIN p : /\ k \notin SizeKeys
                                  /\ ~Falsy(k, p[k])
                                  /\ k # "dhparams"
                                  /\ k \notin fullpathvars}
    IN  [k \in kept |-> p[k]]

\* _save_deployment_yml: the input file is copied when there is one, the
\* cleaned parameter map dumped otherwise
save_deployment_yml(p) ==
    IF yamlfile # None THEN [source |-> yamlfile, params |-> <<>>]
    ELSE [source |-> "params", params |-> clean_param_copy(p)]

(***************************************************************************)
(* The parameter maps and the files a run may start from.                  *)
(***************************************************************************)
\* largest number of keys in which a parameter map differs from a baseline
MaxDeviations == 2

Paths ==
    {"/tls/cert.pem", "/tls/key.pem", "/tls/chain.pem", "/tls/dhparam.pem",
     "/beats/key.pem", "/beats/ca.pem", "/beats/cert.pem"}

\* every key supplied
FullParams ==
    [kubernetes_cluster_name |-> ClusterName,
     hostname |-> Hostname,
     github_client_id |-> "client-id",
     github_client_secret |-> "client-secret",
     github_organization_whitelist |-> "['lsst', 'lsst-sqre']",
     tls_cert |-> "/tls/cert.pem",
     tls_key |-> "/tls/key.pem",
     tls_root_chain |-> "/tls/chain.pem",
     kubernetes_cluster_namespace |-> "jld",
     gke_zone |-> "us-west1-b",
     gke_machine_type |-> "n1-standard-4",
     gke_node_count |-> 3,
     volume_size_gigabytes |-> 5,
     session_db_url |-> "postgresql://db.example.org/hub",
     firefly_admin_password |-> "firefly",
     tls_dhparam |-> "/tls/dhparam.pem",
     rabbitmq_pan_password |-> "pan",
     rabbitmq_target_host |-> "rabbit.example.org",
     rabbitmq_target_vhost |-> "jld",
     log_shipper_name |-> "shipper",
     beats_key |-> "/beats/key.pem",
     beats_ca |-> "/beats/ca.pem",
     beats_cert |-> "/beats/cert.pem"]

\* only the keys a deployment requires
MinimalParams ==
    [k \in Range(REQUIRED_DEPLOYMENT_PARAMETER_NAMES) |-> FullParams[k]]

\* the keys in which the parameter maps of a run differ from a baseline
VariedKeys(m) ==
    IF m = "deploy"
    THEN Range(REQUIRED_DEPLOYMENT_PARAMETER_NAMES)
             \cup {"kubernetes_cluster_namespace", "volume_size_gigabytes",
                   "session_db_url", "firefly_admin_password", "tls_dhparam",
                   "rabbitmq_pan_password", "beats_ca"}
    ELSE {"kubernetes_cluster_name", "hostname",
          "kubernetes_cluster_namespace", "gke_zone"}

\* how a key may differ: left out, given an empty value, given a value
Choices(k) ==
    IF k = "volume_size_gigabytes"
    THEN {"missing", "empty", "set", "negative", "one"}
    ELSE {"missing", "empty", "set"}

ValueOf(k, choice) ==
    IF k = "volume_size_gigabytes"
    THEN (IF choice = "empty" THEN 0
          ELSE IF choice = "negative" THEN -1
          ELSE IF choice = "one" THEN 1
          ELSE FullParams[k])
    ELSE IF choice = "set" THEN FullParams[k]
    ELSE IF k = "github_organization_whitelist" THEN "[]"
    ELSE ""

Deviate(base, val) ==
    LET D == DOMAIN val
        keys == (DOMAIN base \ {k \in D : val[k] = "missing"})
                    \cup {k \in D : val[k] # "missing"}
    IN  [k \in keys |-> IF k \in D THEN ValueOf(k, val[k]) ELSE base[k]]

Deviations(keys) ==
    UNION {{val \in [D -> Choices("volume_size_gigabytes")] :
                \A k \in D : val[k] \in Choices(k)} :
           D \in {S \in SUBSET keys : Cardinality(S) <= MaxDeviations}}

\* the non-empty parameter maps handed to the constructor
RawParams(m) ==
    {p \in {Deviate(base, val) : base \in {FullParams, MinimalParams},
                                 val \in Deviations(VariedKeys(m))} :
        DOMAIN p # {}}

\* every file readable
FullFilesystem == [path \in Paths |-> "PEM " \o path]

\* every file readable, or one missing, or one empty
Filesystems ==
    {FullFilesystem}
        \cup {[path \in Paths \ {bad} |-> FullFilesystem[path]] :
                 bad \in {"/tls/cert.pem", "/tls/dhparam.pem"}}
        \cup {[FullFilesystem EXCEPT ![bad] = ""] :
                 bad \in {"/tls/cert.pem", "/tls/dhparam.pem"}}

(***************************************************************************)
(* deploy() and undeploy(), from the call to the entry of the              *)
(* orchestrator, with no directory given: the configuration is generated   *)
(* in a temporary directory.                                               *)
(***************************************************************************)
JUPYTERLAB_REPO_URL == "https://github.com/lsst-sqre/jupyterlabdemo.git"

\* the parameters of an earlier deployment made by the same process
EarlierParams ==
    [FullParams EXCEPT !["github_client_secret"] = "earlier-client-secret",
                       !["hostname"] = "earlier.example.org"]

\* what rendering one template leaves in b64_cache for the parameters p,
\* once validated and normalised, when every file is readable
CacheLeftBy(p) ==
    LET valid      == validate_deployment_params(p).params
        normalized == normalize_params(valid, FALSE, FALSE, TRUE).params
        dh         == generate_dhparams(normalized, TRUE).params
    IN  substitute([params |-> generate_crypto_key(dh),
                    cache  |-> <<>>,
                    log    |-> <<>>,
                    exc    |-> None]).cache

\* b64_cache is an attribute of the class, and encode_value and encode_file
\* assign to its keys, never to self.b64_cache: every object of the process
\* fills the same dict.  This is what the earlier deployment left in it,
\* CacheLeftBy(EarlierParams) written out.
EarlierCache ==
    [k \in {"github_client_id", "github_client_secret",
            "github_organization_whitelist", "session_db_url",
            "firefly_admin_password", "rabbitmq_pan_password",
            "github_callback_url", "crypto_key", "dhparams"}
           \cup (Paths \ {"/tls/dhparam.pem"})
           \cup {path \o "_contents" : path \in Paths \ {"/tls/dhparam.pem"}}
      |->
        IF k = "github_callback_url"
        THEN b64encode("https://earlier.example.org/hub/oauth_callback")
        ELSE IF k = "github_organization_whitelist"
        THEN b64encode("lsst,lsst-sqre")
        ELSE IF k = "crypto_key" THEN b64encode(CryptoKey)
        ELSE IF k = "dhparams"
        THEN b64encode(FullFilesystem["/tls/dhparam.pem"])
        ELSE IF k \in DOMAIN EarlierParams THEN b64encode(EarlierParams[k])
        ELSE IF k \in Paths THEN b64encode(FullFilesystem[k])
        ELSE LET path == CHOOSE q \in Paths : q \o "_contents" = k
             IN  b64encode(FullFilesystem[path])]

InitParams ==
    /\ mode \in {"deploy", "undeploy"}
    /\ existing_cluster = FALSE
    /\ existing_namespace = FALSE
    /\ enable_logging = FALSE
    /\ enable_prepuller = TRUE
    /\ \/ /\ yamlfile = None
          /\ params \in RawParams(mode)
       \/ /\ yamlfile \in {None, "deploy.yml"}
          /\ params = <<>>
    /\ original_context = None
    /\ pc = IF mode = "deploy" THEN "deploy" ELSE "_set_params"
    /\ exc = None
    /\ cmds = <<>>
    /\ steps = <<>>
    /\ returned = <<>>
    /\ logged = <<>>
    /\ waitfor = NoWaitfor
    /\ probe = <<>>
    /\ rendered_pv = None
    /\ changeset = NoChangeset
    /\ kubeconfig = {}
    /\ current_context = ""
    /\ enable_firefly = FALSE
    /\ encode_log = <<>>
    /\ filesystem \in (IF mode = "deploy" THEN Filesystems
                       ELSE {FullFilesystem})
    /\ b64_cache \in (IF /\ mode = "deploy"
                         /\ params \in {FullParams, MinimalParams}
                         /\ filesystem = FullFilesystem
                      THEN {<<>>, EarlierCache}
                      ELSE {<<>>})
    /\ directory = None
    /\ config_only = FALSE
    /\ dirs = {}
    /\ manifests = <<>>
    /\ snapshot = NoSnapshot
    /\ nonzero = {}
    /\ hosted_zones = <<>>

\* a faulty variant of DeployCalls: the repository is cloned before the parameters
\* are validated
DeployCalls_CloneFirst ==
    <<"_set_params", "_get_repo", "_validate_deployment_params",
      "_normalize_params", "_create_deployment", "_copy_deployment_files",
      "_substitute_templates", "_rename_fileserver_template",
      "_save_deployment_yml">>

\* deploy, _create_deployment and _generate_config: the calls made before
\* _create_resources
DeployCalls ==
    <<"_set_params", "_validate_deployment_params", "_normalize_params",
      "_create_deployment", "_get_repo", "_copy_deployment_files",
      "_substitute_templates", "_rename_fileserver_template",
      "_save_deployment_yml">>

\* undeploy: the calls made before _destroy_resources
UndeployCalls == <<"_set_params", "_get_cluster_info">>

Calls == IF mode = "deploy" THEN DeployCalls ELSE UndeployCalls

\* _create_deployment once the configuration is there: _create_resources
\* is skipped only for config_only in a directory of the caller; in a
\* temporary directory it is called whatever config_only says
AfterConfig ==
    IF config_only /\ directory # TempDir THEN "return" ELSE "kubecontext"

\* the call that follows `call`; after the last one the orchestrator runs
Following(call) ==
    LET n == CHOOSE m \in 1..Len(Calls) : Calls[m] = call
    IN  IF n < Len(Calls) THEN Calls[n + 1]
        ELSE IF mode = "deploy" THEN AfterConfig
        ELSE "kubecontext"

\* an exception that leaves _create_deployment leaves the `with` block of
\* its temporary directory, which is removed
Unwind(e) == IF e = None THEN dirs ELSE Cleanup(dirs)

\* A method called by deploy or undeploy ran: it returned (e = None) or
\* raised e, which nothing catches.
Called(call, e) ==
    /\ steps' = Append(steps, call)
    /\ IF e = None
       THEN /\ returned' = Append(returned, call)
            /\ pc' = Following(call)
            /\ exc' = exc
       ELSE /\ returned' = returned
            /\ pc' = "raised"
            /\ exc' = e

ambient == <<mode, existing_cluster, existing_namespace, enable_prepuller,
             yamlfile, original_context, waitfor, probe, rendered_pv,
             changeset, current_context, kubeconfig, filesystem, config_only,
             nonzero, hosted_zones>>

\* the working directory and what configuration generation leaves in it
tree == <<directory, dirs, manifests, snapshot>>

\* deploy: the check made before _set_params
deploy ==
    /\ pc = "deploy"
    /\ IF yamlfile = None /\ DOMAIN params = {}
       THEN /\ pc' = "raised"
            /\ exc' = "ValueError: YAML file or parameter set required."
       ELSE /\ pc' = Calls[1]
            /\ exc' = exc
    /\ UNCHANGED <<ambient, tree, params, cmds, steps, returned, logged,
                   enable_logging, enable_firefly, b64_cache, encode_log>>

\* what yaml.load can read from the file: the documented keys alone, or
\* with keys that PARAMETER_NAMES does not list
YamlFiles ==
    {FullParams, MinimalParams,
     ("jupyterhub_image" :> "lsstsqre/jld-hub") @@ FullParams,
     ("jupyterhub_image" :> "lsstsqre/jld-hub")
        @@ ("debug" :> "true") @@ MinimalParams}

\* _set_params: without a parameter map the YAML file is loaded, and the
\* loop that follows reads the name `params`, which is not defined
set_params ==
    /\ pc = "_set_params"
    /\ IF DOMAIN params # {}
       THEN /\ Called("_set_params", None)
            /\ params' = params
       ELSE IF yamlfile = None
       THEN /\ Called("_set_params", "TypeError")
            /\ params' = params
       ELSE /\ Called("_set_params", "NameError: name 'params' is not defined")
            /\ params' \in YamlFiles
    /\ UNCHANGED <<ambient, tree, cmds, logged, enable_logging, enable_firefly,
                   b64_cache, encode_log>>

validate ==
    /\ pc = "_validate_deployment_params"
    /\ LET r == validate_deployment_params(params)
       IN  /\ params' = r.params
           /\ logged' = logged \o r.logged
           /\ Called("_validate_deployment_params", r.exc)
    /\ UNCHANGED <<ambient, tree, cmds, enable_logging, enable_firefly,
                   b64_cache, encode_log>>

\* undeploy: the working directory is set, then _get_cluster_info called
cluster_info ==
    /\ pc = "_get_cluster_info"
    /\ directory' = TMPDIR
    /\ LET r == get_cluster_info(params)
       IN  /\ params' = r.params
           /\ logged' = logged \o r.logged
           /\ Called("_get_cluster_info", r.exc)
    /\ UNCHANGED <<ambient, dirs, manifests, snapshot, cmds, enable_logging,
                   enable_firefly, b64_cache, encode_log>>

normalize ==
    /\ pc = "_normalize_params"
    /\ \E openssl \in BOOLEAN :
         LET r == normalize_params(params, enable_firefly, enable_logging,
                                   openssl)
         IN  /\ params' = r.params
             /\ enable_firefly' = r.enable_firefly
             /\ enable_logging' = r.enable_logging
             /\ Called("_normalize_params", r.exc)
    /\ UNCHANGED <<ambient, tree, cmds, logged, b64_cache, encode_log>>

\* _create_deployment, up to _generate_config: a directory of the caller
\* is created when missing, and the configuration is generated unless the
\* directory has a "deployment" subdirectory; without a directory a
\* temporary one is created
create_deployment ==
    /\ pc = "_create_deployment"
    /\ steps' = Append(steps, "_create_deployment")
    /\ IF directory # None
       THEN /\ directory' = directory
            /\ dirs' = dirs \cup {directory}
            /\ pc' = IF Deployment(directory) \in dirs THEN AfterConfig
                     ELSE Following("_create_deployment")
       ELSE /\ directory' = TempDir
            /\ dirs' = dirs \cup {TempDir}
            /\ pc' = Following("_create_deployment")
    /\ UNCHANGED <<ambient, manifests, snapshot, params, exc, cmds, returned,
                   logged, enable_logging, enable_firefly, b64_cache,
                   encode_log>>

\* _get_repo
get_repo ==
    /\ pc = "_get_repo"
    /\ \E ok \in BOOLEAN :
         /\ cmds' = Append(cmds, <<"git", "clone", JUPYTERLAB_REPO_URL>>)
         /\ Called("_get_repo", IF ok THEN None ELSE "CalledProcessError")
         /\ dirs' = Unwind(IF ok THEN None ELSE "CalledProcessError")
    /\ UNCHANGED <<ambient, directory, manifests, snapshot, params, logged,
                   enable_logging, enable_firefly, b64_cache, encode_log>>

\* _copy_deployment_files, from a repository with n template files
copy_deployment_files ==
    /\ pc = "_copy_deployment_files"
    /\ IF Deployment(directory) \in dirs
       THEN /\ Called("_copy_deployment_files", "FileExistsError")
            /\ dirs' = Unwind("FileExistsError")
            /\ manifests' = manifests
       ELSE \E n \in 1..MaxTemplates :
              /\ Called("_copy_deployment_files", None)
              /\ dirs' = dirs \cup {Deployment(directory)}
              /\ manifests' = Repo(n)
    /\ UNCHANGED <<ambient, directory, snapshot, params, cmds, logged,
                   enable_logging, enable_firefly, b64_cache, encode_log>>

\* _substitute_templates: _generate_dhparams, _generate_crypto_key, then
\* _substitute_file for each of the templates found
substitute_templates ==
    /\ pc = "_substitute_templates"
    /\ \E ok \in BOOLEAN :
         LET dh == generate_dhparams(params, ok)
             r  == substitute_files(
                       [params |-> generate_crypto_key(dh.params),
                        cache  |-> b64_cache,
                        log    |-> encode_log,
                        exc    |-> None],
                       manifests, Found(manifests))
         IN  /\ cmds' = cmds \o dh.issued
             /\ IF dh.exc # None
                THEN /\ params' = dh.params
                     /\ UNCHANGED <<b64_cache, encode_log, manifests>>
                     /\ Called("_substitute_templates", dh.exc)
                     /\ dirs' = Unwind(dh.exc)
                ELSE /\ params' = r.st.params
                     /\ b64_cache' = r.st.cache
                     /\ encode_log' = r.st.log
                     /\ manifests' = r.files
                     /\ Called("_substitute_templates", r.st.exc)
                     /\ dirs' = Unwind(r.st.exc)
    /\ UNCHANGED <<ambient, directory, snapshot, logged, enable_logging,
                   enable_firefly>>

\* _rename_fileserver_template
rename_fileserver_template_step ==
    /\ pc = "_rename_fileserver_template"
    /\ IF <<FileserverPv, ".yml">> \in DOMAIN manifests
       THEN /\ manifests' = rename_fileserver_template(manifests)
            /\ Called("_rename_fileserver_template", None)
            /\ dirs' = dirs
       ELSE /\ manifests' = manifests
            /\ Called("_rename_fileserver_template", "FileNotFoundError")
            /\ dirs' = Unwind("FileNotFoundError")
    /\ UNCHANGED <<ambient, directory, snapshot, params, cmds, logged,
                   enable_logging, enable_firefly, b64_cache, encode_log>>

\* _save_deployment_yml
save_deployment_yml_step ==
    /\ pc = "_save_deployment_yml"
    /\ snapshot' = save_deployment_yml(params)
    /\ Called("_save_deployment_yml", None)
    /\ UNCHANGED <<ambient, directory, dirs, manifests, params, cmds, logged,
                   enable_logging, enable_firefly, b64_cache, encode_log>>

NextParams ==
    \/ deploy
    \/ set_params
    \/ validate
    \/ cluster_info
    \/ normalize
    \/ create_deployment
    \/ get_repo
    \/ copy_deployment_files
    \/ substitute_templates
    \/ rename_fileserver_template_step
    \/ save_deployment_yml_step

SpecParams == InitParams /\ [][NextParams]_vars

(***************************************************************************)
(* _normalize_params on validated parameter maps of every volume size.     *)
(***************************************************************************)
\* largest volume_size_gigabytes normalised
MaxVolume == 1000

InitVolume ==
    /\ mode = "deploy"
    /\ existing_cluster = FALSE
    /\ existing_namespace = FALSE
    /\ enable_logging = FALSE
    /\ enable_prepuller = TRUE
    /\ yamlfile = None
    /\ \E n \in 1..MaxVolume :
         params = [FullParams EXCEPT !["volume_size_gigabytes"] = n]
    /\ original_context = None
    /\ pc = "_normalize_params"
    /\ exc = None
    /\ cmds = <<>>
    /\ steps = <<"_set_params", "_validate_deployment_params">>
    /\ returned = <<"_set_params", "_validate_deployment_params">>
    /\ logged = <<>>
    /\ waitfor = NoWaitfor
    /\ probe = <<>>
    /\ rendered_pv = None
    /\ changeset = NoChangeset
    /\ kubeconfig = {}
    /\ current_context = ""
    /\ enable_firefly = FALSE
    /\ b64_cache = <<>>
    /\ encode_log = <<>>
    /\ filesystem = FullFilesystem
    /\ directory = None
    /\ config_only = FALSE
    /\ dirs = {}
    /\ manifests = <<>>
    /\ snapshot = NoSnapshot
    /\ nonzero = {}
    /\ hosted_zones = <<>>

SpecVolume == InitVolume /\ [][normalize]_vars

(***************************************************************************)
(* A whole run: deploy() or undeploy() from the call to its end, the       *)
(* orchestrator included, with or without a directory of the caller.       *)
(***************************************************************************)
\* the full parameter map with a crypto_key of the caller's
KeyedParams == ("crypto_key" :> SuppliedCryptoKey) @@ FullParams

\* what an earlier run that generated the configuration left under
\* "deployment"
GeneratedEarlier ==
    (<<FileserverPv, TemplateSuffix>>
        :> TemplateText({"NFS_SERVER_IP_ADDRESS"}))
    @@ (StaticManifest :> TemplateText({}))

\* the directory handed to the constructor and what is on disk: no
\* directory, one that does not exist, an empty one, one with a
\* "deployment" subdirectory
StartDirs ==
    {[directory |-> None, dirs |-> {}, manifests |-> <<>>],
     [directory |-> WorkDir, dirs |-> {}, manifests |-> <<>>],
     [directory |-> WorkDir, dirs |-> {WorkDir}, manifests |-> <<>>],
     [directory |-> WorkDir, dirs |-> {WorkDir, Deployment(WorkDir)},
      manifests |-> GeneratedEarlier]}

InitRun ==
    /\ mode \in {"deploy", "undeploy"}
    /\ existing_cluster = FALSE
    /\ existing_namespace = FALSE
    /\ enable_logging = FALSE
    /\ enable_prepuller = TRUE
    /\ params \in (IF mode = "deploy"
                   THEN {FullParams, MinimalParams, KeyedParams}
                   ELSE {FullParams, MinimalParams})
    /\ yamlfile \in (IF mode = "deploy" THEN {None, "deploy.yml"} ELSE {None})
    /\ config_only \in (IF mode = "deploy" THEN BOOLEAN ELSE {FALSE})
    /\ \E d \in (IF mode = "deploy" THEN StartDirs
                 ELSE {[directory |-> None, dirs |-> {}, manifests |-> <<>>]}) :
         /\ directory = d.directory
         /\ dirs = d.dirs
         /\ manifests = d.manifests
    /\ original_context = None
    /\ pc = IF mode = "deploy" THEN "deploy" ELSE "_set_params"
    /\ exc = None
    /\ cmds = <<>>
    /\ steps = <<>>
    /\ returned = <<>>
    /\ logged = <<>>
    /\ waitfor = NoWaitfor
    /\ probe = <<>>
    /\ rendered_pv = None
    /\ changeset = NoChangeset
    /\ kubeconfig = {ClusterContext, OtherContext}
    /\ current_context = OtherContext
    /\ enable_firefly = FALSE
    /\ b64_cache = <<>>
    /\ encode_log = <<>>
    /\ filesystem = FullFilesystem
    /\ snapshot = NoSnapshot
    /\ nonzero = {}
    /\ hosted_zones \in ZoneLists

NextRun == NextParams \/ Next

SpecRun == InitRun /\ [][NextRun]_vars

(***************************************************************************)
(* Properties                                                              *)
(***************************************************************************)
InSeq(x, s) == \E n \in 1..Len(s) : s[n] = x

IsPrefix(s, t) == Len(s) <= Len(t) /\ s = SubSeq(t, 1, Len(s))

\* the run is over: it completed, or an exception left it
Ended == pc \in {"done", "raised"}

\* an exception is leaving, or has left, the scoped block
Raising == pc \in {"kubecontext:throw", "raised"}

\* the scoped block was left normally
Completed == pc \in {"kubecontext:exit", "return", "done"}

LastCmd == cmds[Len(cmds)]

\* C1: in every run that captured an ambient context on entry to
\* kubecontext, the run ends - normally or with an exception raised by a
\* create/destroy step - only after `kubectl config use-context <original>`
\* was issued as its last command.
C1_ContextRestoredOnEveryExit ==
    (mode \in {"deploy", "undeploy"} /\ Ended /\ original_context # None)
        => /\ cmds # <<>>
           /\ LastCmd = UseContext(original_context)

\* the declared order of the creation steps
DeployOrder ==
    <<"_create_gke_cluster", "_create_logging_components",
      "_create_fileserver", "_create_fs_keepalive", "_create_prepuller",
      "_create_jupyterhub", "_create_nginx", "_create_dns_record">>

WantedOnDeploy(call) ==
    /\ call = "_create_logging_components" => enable_logging
    /\ call = "_create_prepuller" => enable_prepuller

\* every step entered returned, except the last one when it raised
EachStepAfterItsPredecessorReturned ==
    /\ IsPrefix(returned, steps)
    /\ Len(steps) <= Len(returned) + 1
    /\ Len(steps) = Len(returned) + 1 => Raising /\ exc # None

\* C2: the creation steps of a deploy run are entered in the order cluster,
\* logging, file server, fs-keepalive, prepuller, JupyterHub, nginx, DNS
\* record, with logging there iff enable_logging and the prepuller iff
\* enable_prepuller; a step is entered only when every step before it
\* returned without error, and a run that completes made them all.
C2_DeployOrder ==
    mode = "deploy"
        => /\ IsPrefix(steps, SelectSeq(DeployOrder, WantedOnDeploy))
           /\ EachStepAfterItsPredecessorReturned
           /\ Completed => returned = SelectSeq(DeployOrder, WantedOnDeploy)

C2_Witness ==
    /\ mode = "deploy"
    /\ pc = "done"
    /\ enable_prepuller /\ ~enable_logging
    /\ Len(steps) = 7

\* the destroy method of each creation step
DestroyOf(call) ==
    CASE call = "_create_gke_cluster" -> "_destroy_gke_cluster"
      [] call = "_create_logging_components" -> "_destroy_logging_components"
      [] call = "_create_fileserver" -> "_destroy_fileserver"
      [] call = "_create_fs_keepalive" -> "_destroy_fs_keepalive"
      [] call = "_create_prepuller" -> "_destroy_prepuller"
      [] call = "_create_jupyterhub" -> "_destroy_jupyterhub"
      [] call = "_create_nginx" -> "_destroy_nginx"
      [] call = "_create_dns_record" -> "_destroy_dns_record"

\* the deploy order, reversed
UndeployOrder ==
    [n \in 1..Len(DeployOrder) |->
        DestroyOf(DeployOrder[Len(DeployOrder) + 1 - n])]

IsTeardown(call) == call # "_switch_to_context"

\* C3: the teardown steps of an undeploy run are entered in the reverse of
\* the deploy order - DNS record, nginx, JupyterHub, prepuller,
\* fs-keepalive, file server, logging, namespace/cluster - each only when
\* the one before it returned, and a run that completes made them all.
C3_UndeployOrder ==
    mode = "undeploy"
        => /\ IsPrefix(SelectSeq(steps, IsTeardown), UndeployOrder)
           /\ EachStepAfterItsPredecessorReturned
           /\ Completed => SelectSeq(returned, IsTeardown) = UndeployOrder

C3_Witness ==
    /\ mode = "undeploy"
    /\ pc = "done"
    /\ Len(steps) = 9

PodExitPolls == {"_check_keepalive_gone", "_check_fileserver_gone"}

\* the pod-exit poll used its whole budget without seeing the pods gone
PodExitTimedOut ==
    /\ waitfor.callback \in PodExitPolls
    /\ waitfor.exc = "RuntimeError"
    /\ waitfor.calls = PodExitTries

RemovalComplete ==
    InSeq(<<"info", "Removal of %s complete.", params["hostname"]>>, logged)

\* C4: in an undeploy with existing_cluster set, once the pod-exit poll of
\* fs-keepalive or of the file server has used its budget without seeing
\* the pods gone, the run raises that error: no later step is entered and
\* 'Removal complete' is never logged.
C4_PodExitTimeoutFatalOnKeptCluster ==
    (mode = "undeploy" /\ existing_cluster /\ PodExitTimedOut)
        => /\ Raising
           /\ exc = "RuntimeError"
           /\ ~RemovalComplete
           /\ steps[Len(steps)] \in {"_destroy_fs_keepalive",
                                     "_destroy_fileserver"}

C4_Witness ==
    /\ mode = "undeploy"
    /\ existing_cluster
    /\ PodExitTimedOut
    /\ waitfor.callback = "_check_fileserver_gone"
    /\ pc = "raised"

\* the method that runs the poll
PollingMethod(callback) ==
    IF callback = "_check_keepalive_gone" THEN "_destroy_fs_keepalive"
    ELSE "_destroy_fileserver"

DidNotExit(poddesc) ==
    InSeq(<<"warn", "All pods did not exit.  Continuing.", poddesc>>, logged)

\* C5: in an undeploy that destroys the cluster (existing_cluster not
\* set), a failed pod-exit poll of fs-keepalive or of the file server does
\* not raise: its method returns with a warning logged, every remaining
\* teardown method is entered in turn, the last of them the
\* namespace/cluster removal, and the cluster delete is issued (only a
\* failing namespace command of that last method comes before it).
C5_PodExitFailureSwallowedOnDestroyedCluster ==
    (mode = "undeploy" /\ ~existing_cluster)
        => /\ (waitfor.callback \in PodExitPolls /\ waitfor.exc # None)
                => /\ InSeq(PollingMethod(waitfor.callback), returned)
                   /\ DidNotExit(IF waitfor.callback = "_check_keepalive_gone"
                                 THEN "keepalive" ELSE "fileserver")
           /\ (DidNotExit("keepalive") \/ DidNotExit("fileserver"))
                => /\ Raising => steps[Len(steps)] = "_destroy_gke_cluster"
                   /\ Completed =>
                        /\ SelectSeq(returned, IsTeardown) = UndeployOrder
                        /\ Issued(DeleteCluster)
                   /\ Ended =>
                        /\ InSeq("_destroy_gke_cluster", steps)
                        /\ \/ Issued(DeleteCluster)
                           \/ /\ params["kubernetes_cluster_namespace"]
                                    # "default"
                              /\ ~existing_namespace
                              /\ LastCmd[1] = "kubectl"

C5_Witness ==
    /\ mode = "undeploy"
    /\ ~existing_cluster
    /\ DidNotExit("keepalive")
    /\ DidNotExit("fileserver")
    /\ pc = "done"
    /\ Issued(DeleteCluster)

DnsDestroyFailed ==
    \E n \in 1..Len(logged) :
        /\ logged[n][1] = "warn"
        /\ logged[n][2] = "Failed to destroy DNS record"

\* C6: _destroy_dns_record never raises, whether the lookup of the current
\* record or the DELETE change fails: it returns with a warning logged,
\* _destroy_nginx is entered next and the later teardown methods follow;
\* no exception of the run comes from the DNS, nginx, JupyterHub or
\* prepuller methods.
C6_DnsDestroyFailureSwallowed ==
    mode = "undeploy"
        => /\ InSeq("_destroy_dns_record", steps)
                => InSeq("_destroy_dns_record", returned)
           /\ DnsDestroyFailed
                => /\ pc # "_destroy_dns_record"
                   /\ pc = "_destroy_nginx" \/ InSeq("_destroy_nginx", returned)
                   /\ Raising => steps[Len(steps)] \in
                                    {"_destroy_fs_keepalive",
                                     "_destroy_fileserver",
                                     "_destroy_gke_cluster"}
                   /\ Completed => SelectSeq(returned, IsTeardown)
                                       = UndeployOrder

\* the lookup failed in one run, the DELETE change in another
C6_Witness ==
    /\ mode = "undeploy"
    /\ DnsDestroyFailed
    /\ pc = "done"
    /\ Issued(ChangeResourceRecordSets)

\* C7: with existing_cluster set no cluster delete and no cluster create
\* is ever issued; a namespace delete is issued only by an undeploy whose
\* namespace is not 'default' and with existing_namespace not set; and a
\* cluster delete of such a run comes after its namespace delete.
C7_KeptClusterNeverCreatedOrDeleted ==
    /\ existing_cluster => ~Issued(DeleteCluster) /\ ~Issued(CreateCluster)
    /\ Issued(DeleteNamespace)
         => /\ mode = "undeploy"
            /\ params["kubernetes_cluster_namespace"] # "default"
            /\ ~existing_namespace
    /\ Issued(DeleteCluster)
         => /\ mode = "undeploy"
            /\ (params["kubernetes_cluster_namespace"] # "default"
                    /\ ~existing_namespace)
                 => /\ Issued(DeleteNamespace)
                    /\ Position(DeleteNamespace) < Position(DeleteCluster)

C7_Witness ==
    /\ mode = "undeploy"
    /\ existing_cluster
    /\ pc = "done"
    /\ Issued(DeleteNamespace)

\* C8: a deploy with existing_cluster set issues neither the cluster
\* create nor get-credentials, yet _create_gke_cluster still looks up the
\* named cluster's context; when it returns, the ambient context has been
\* switched to that context, and the namespace create has been issued iff
\* the namespace is not 'default' and existing_namespace is not set (and
\* it is never issued otherwise).
C8_ExistingClusterOnDeploy ==
    (mode = "deploy" /\ existing_cluster)
        => /\ ~Issued(CreateCluster)
           /\ ~Issued(GetCredentials)
           /\ Issued(CreateNamespace)
                => /\ params["kubernetes_cluster_namespace"] # "default"
                   /\ ~existing_namespace
           /\ InSeq("_create_gke_cluster", steps)
                => Issued(<<"kubectl", "config", "get-contexts">>)
           /\ InSeq("_create_gke_cluster", returned)
                => /\ Issued(UseContext(ClusterContext))
                   /\ pc \notin {"return", "done"}
                        => current_context = ClusterContext
                   /\ Issued(CreateNamespace)
                        <=> /\ params["kubernetes_cluster_namespace"]
                                  # "default"
                            /\ ~existing_namespace

C8_Witness ==
    /\ mode = "deploy"
    /\ existing_cluster
    /\ InSeq("_create_gke_cluster", returned)
    /\ Issued(CreateNamespace)
    /\ original_context = OtherContext
    /\ current_context = ClusterContext

Empty(v) == v \in {None, ""}

\* the callback first returns a non-empty value on call k
FirstNonEmptyAt(k) ==
    /\ k \in 1..Len(probe)
    /\ probe[k] # Raise
    /\ ~Empty(probe[k])
    /\ \A j \in 1..(k - 1) : Empty(probe[j])

\* C9: when the callback first returns a non-empty value on call k, with
\* 1 <= k <= tries, _waitfor returns that value after exactly k calls.
C9_WaitforReturnsFirstNonEmpty ==
    (mode = "waitfor" /\ pc # "_waitfor")
        => \A k \in 1..waitfor.tries :
              FirstNonEmptyAt(k)
                 => /\ pc = "done"
                    /\ waitfor.exc = None
                    /\ waitfor.rc = probe[k]
                    /\ waitfor.calls = k

\* a success on the last try, with a different value ready for one more call
C9_Witness ==
    /\ mode = "waitfor"
    /\ pc = "done"
    /\ waitfor.tries = 3
    /\ FirstNonEmptyAt(3)
    /\ probe[3] = "True"
    /\ probe[4] = "10.0.0.5"

\* C10: when the callback returns empty on every call, _waitfor raises its
\* timeout error after exactly `tries` calls.
C10_WaitforTimesOutAfterTries ==
    (mode = "waitfor" /\ pc # "_waitfor"
        /\ \A n \in 1..Len(probe) : Empty(probe[n]))
        => /\ pc = "raised"
           /\ waitfor.exc = "RuntimeError"
           /\ waitfor.calls = waitfor.tries

C10_Witness ==
    /\ mode = "waitfor"
    /\ pc = "raised"
    /\ waitfor.tries = 3
    /\ waitfor.calls = 3
    /\ \A n \in 1..Len(probe) : Empty(probe[n])


(***************************************************************************)
(* Properties of parameter resolution                                      *)
(***************************************************************************)
\* C11: a deploy whose parameter map lacks a key required for deployment,
\* or gives it an empty value, fails in _validate_deployment_params: the
\* method never returns normally with such a key missing or empty.
C11_DeployRejectsMissingRequiredKey ==
    (mode = "deploy" /\ InSeq("_validate_deployment_params", returned))
        => ~any_empty(params, REQUIRED_DEPLOYMENT_PARAMETER_NAMES)

\* C12: when kubernetes_cluster_name is missing or empty and hostname is
\* not, _get_cluster_info (called by undeploy, and by deploy through
\* _validate_deployment_params) sets the cluster name to the hostname with
\* '.' replaced by '-' and does not raise for the missing name.
C12_ClusterNameDerivedThenContinues ==
    [][(/\ pc \in {"_get_cluster_info", "_validate_deployment_params"}
        /\ empty_param(params, "kubernetes_cluster_name")
        /\ ~empty_param(params, "hostname"))
          => (/\ params'["kubernetes_cluster_name"]
                    = Translate(params["hostname"])
              /\ exc' # ClusterNameUnset)]_vars

\* C13: a deploy given an integer volume_size_gigabytes below 1, zero or
\* negative, fails in _validate_deployment_params; the default size
\* replaces no value that was supplied.
C13_VolumeBelowOneRejected ==
    [][(/\ pc = "_validate_deployment_params"
        /\ "volume_size_gigabytes" \in DOMAIN params
        /\ params["volume_size_gigabytes"] < 1)
          => (/\ pc' = "raised"
              /\ params'["volume_size_gigabytes"]
                    = params["volume_size_gigabytes"])]_vars

\* C14: once _normalize_params has run on a volume size n >= 1,
\* volume_size is "{n}Gi" and nfs_volume_size is "950Mi" for n = 1 and
\* "{floor(95 * n / 100)}Gi" for n > 1.
C14_VolumeSizes ==
    InSeq("_normalize_params", steps) =>
        LET n == params["volume_size_gigabytes"]
        IN  /\ params["volume_size"] = <<n, "Gi">>
            /\ params["nfs_volume_size"]
                  = IF n = 1 THEN <<950, "Mi">>
                    ELSE <<(95 * n) \div 100, "Gi">>

C14_Witness ==
    /\ InSeq("_normalize_params", returned)
    /\ params["volume_size_gigabytes"] = 20
    /\ params["volume_size"] = <<20, "Gi">>
    /\ params["nfs_volume_size"] = <<19, "Gi">>

\* C15: once _normalize_params has returned, the logging keys are either
\* all non-empty with enable_logging set, or all '' with enable_logging
\* clear; and enable_firefly is set iff firefly_admin_password is non-empty.
C15_OptionalGroupsAllOrNothing ==
    InSeq("_normalize_params", returned) =>
        /\ Range(logging_vars) \cup {"firefly_admin_password"}
              \subseteq DOMAIN params
        /\ \/ /\ \A l \in Range(logging_vars) : params[l] # ""
              /\ enable_logging
           \/ /\ \A l \in Range(logging_vars) : params[l] = ""
              /\ ~enable_logging
        /\ enable_firefly <=> params["firefly_admin_password"] # ""

\* normalisation of a map that had beats_key (supplied with gke_zone in the
\* maps built on FullParams) but lacked another key of the group: the
\* group was emptied
C15_Witness ==
    /\ InSeq("_normalize_params", returned)
    /\ params["gke_zone"] = FullParams["gke_zone"]
    /\ params["beats_key"] = ""
    /\ ~enable_logging
    /\ enable_firefly

\* C16: encoding is memoised per key, whatever the value: in one run
\* encode_value encodes the value of no key twice and encode_file opens the
\* file of no key twice, however many templates are rendered.
C16_EncodedAtMostOnce ==
    \A i, j \in 1..Len(encode_log) : encode_log[i] = encode_log[j] => i = j

\* the method that raised, when one called by deploy or undeploy did
RaisedIn(call) ==
    /\ pc = "raised"
    /\ Len(steps) > Len(returned)
    /\ steps[Len(steps)] = call

\* C17: when _get_cluster_info, _validate_deployment_params or
\* _normalize_params raises, no external process (gcloud, kubectl, aws,
\* git, openssl) has been started in the run.
C17_ValidationFailsBeforeAnyProcess ==
    (\E call \in {"_get_cluster_info", "_validate_deployment_params",
                  "_normalize_params"} : RaisedIn(call))
        => cmds = <<>>

C17_Witness ==
    /\ mode = "deploy"
    /\ RaisedIn("_normalize_params")
    /\ exc = OpensslMissing
    /\ cmds = <<>>

(***************************************************************************)
(* Properties of a failed and of a completed deploy                        *)
(***************************************************************************)
\* a command that deletes: `kubectl delete ...`, `gcloud ... delete ...`
IsDelete(c) == \E n \in 1..Len(c) : c[n] = "delete"

\* C18: a deploy run issues no delete command and submits no DELETE change
\* batch, and once one of its steps has raised it starts no further command
\* and enters no further step: what was created stays.
C18_NoRollback ==
    /\ [](mode = "deploy" =>
            /\ \A n \in 1..Len(cmds) : ~IsDelete(cmds[n])
            /\ changeset.Action # "DELETE")
    /\ [][(mode = "deploy" /\ exc # None)
             => (cmds' = cmds /\ steps' = steps)]_vars

\* nginx could not be created: the cluster, the file server, the keepalive
\* and JupyterHub stay
C18_Witness ==
    /\ mode = "deploy"
    /\ pc = "raised"
    /\ steps # <<>>
    /\ steps[Len(steps)] = "_create_nginx"
    /\ InSeq("_create_jupyterhub", returned)
    /\ LastCmd[2] = "create"

\* the positions in cmds at which a change batch was submitted
DnsSubmissions ==
    {n \in 1..Len(cmds) : cmds[n] = ChangeResourceRecordSets}

\* C19: a deploy run submits at most one DNS change batch, and a run that
\* completes submits exactly one; the batch is an UPSERT of the configured
\* hostname to the address the ingress poll returned, and it is submitted
\* only after every creation step before _create_dns_record returned, after
\* every `kubectl create`, and after the poll returned a non-empty address.
C19_OneUpsertAfterEverything ==
    mode = "deploy" =>
        /\ Cardinality(DnsSubmissions) <= 1
        /\ Completed => Cardinality(DnsSubmissions) = 1
        /\ \A n \in DnsSubmissions :
              /\ changeset.Action = "UPSERT"
              /\ changeset.Name = params["hostname"]
              /\ waitfor.callback = "_get_external_ip"
              /\ waitfor.exc = None
              /\ waitfor.rc \notin {None, ""}
              /\ changeset.Value = waitfor.rc
              /\ \A call \in Range(DeployOrder) \ {"_create_dns_record"} :
                    WantedOnDeploy(call) => InSeq(call, returned)
              /\ \A m \in 1..Len(cmds) : cmds[m][2] = "create" => m < n

C19_Witness ==
    /\ mode = "deploy"
    /\ pc = "done"
    /\ Cardinality(DnsSubmissions) = 1
    /\ changeset.Action = "UPSERT"
    /\ changeset.Name = Hostname
    /\ changeset.Value \in ExternalIPs

\* the keys _substitute reads that the run does not generate itself
ReadByRendering ==
    {SubstituteArgs[n][2] : n \in 1..Len(SubstituteArgs)}
        \ {"crypto_key", "dhparams"}

\* C20: once _validate_deployment_params and _normalize_params have both
\* returned, every key that template rendering reads is in the parameter
\* map, so that rendering raises no KeyError.
C20_RenderedKeysPresent ==
    (mode = "deploy" /\ InSeq("_normalize_params", returned)) =>
        /\ ReadByRendering \subseteq DOMAIN params
        /\ \A key \in ReadByRendering : exc # KeyError(key)

(***************************************************************************)
(* Properties of configuration generation                                  *)
(***************************************************************************)
\* the keys under which a parameter map holds a secret or a derived size:
\* the OAuth client secret, the generated crypto key, the DH parameters,
\* the contents of the certificate and key files (kept under their paths)
\* and the two sizes
SecretOrDerived(k) ==
    \/ k \in {"github_client_secret", "crypto_key", "dhparams",
              "volume_size", "nfs_volume_size"}
    \/ k \in DOMAIN filesystem

\* C21: a snapshot generated from the in-memory parameter map never
\* contains a secret (OAuth client secret, generated crypto key, DH
\* parameters, contents of the certificate and key files) nor the derived
\* fields volume_size and nfs_volume_size.
C21_SnapshotHoldsNoSecret ==
    snapshot.source = "params"
        => \A k \in DOMAIN snapshot.params : ~SecretOrDerived(k)

\* what the snapshot does leave out: the DH parameters, the file contents
\* and the two sizes
C21_SnapshotLeavesOut ==
    snapshot.source = "params"
        => \A k \in DOMAIN snapshot.params :
              SecretOrDerived(k) => k \in {"github_client_secret", "crypto_key"}

(***************************************************************************)
(* Properties of the file server, the polls and the teardown commands      *)
(***************************************************************************)
\* the commands that apply the persistent volume and the claim on it
ApplyVolume == KubectlCreate("jld-fileserver-pv-%s.yml")
ApplyClaim == KubectlCreate("jld-fileserver-pvc.yml")

\* the first n of the four commands that precede the poll were issued, in
\* the order storage class, physical claim, service, workload
WorkloadApplied(n) ==
    \E at \in 1..Len(cmds) :
        /\ at + n - 1 <= Len(cmds)
        /\ cmds[at] = KubectlCreate("jld-fileserver-storageclass.yml")
        /\ n >= 2 => cmds[at + 1] = KubectlCreate("jld-fileserver-physpvc.yml")
        /\ n >= 3 => cmds[at + 2] = KubectlCreate("jld-fileserver-service.yml")
        /\ n >= 4 => cmds[at + 3]
                        = KubectlCreate("jld-fileserver-deployment.yml")

\* the poll for the file server's address ran out of tries
AddressPollTimedOut ==
    waitfor.callback = "_get_fileserver_ip" /\ waitfor.exc # None

\* C22: file-server creation applies the storage class, the physical claim,
\* the service and the workload in that order and then polls for the
\* address; the volume manifest is rendered with the address found and
\* applied only after the poll returned a non-empty address, and before the
\* claim; when the poll runs out of tries neither is applied and the deploy
\* fails.
C22_VolumeAfterAddress ==
    /\ InSeq("_create_fileserver", steps)
           => \E n \in 1..4 : WorkloadApplied(n)
    /\ rendered_pv # None => WorkloadApplied(4) /\ Truthy(rendered_pv)
    /\ Issued(ApplyVolume)
           => /\ rendered_pv \in ClusterIPs
              /\ cmds[Position(ApplyVolume) - 1]
                    = KubectlCreate("jld-fileserver-deployment.yml")
    /\ Issued(ApplyClaim)
           => /\ Issued(ApplyVolume)
              /\ Position(ApplyClaim) = Position(ApplyVolume) + 1
    /\ AddressPollTimedOut
           => /\ ~Issued(ApplyVolume)
              /\ ~Issued(ApplyClaim)
              /\ rendered_pv = None
              /\ Raising
              /\ exc = "RuntimeError"

\* the address came at the last try and both the volume and the claim
\* were applied
C22_Witness ==
    /\ waitfor.callback = "_get_fileserver_ip"
    /\ waitfor.calls = DefaultTries
    /\ waitfor.exc = None
    /\ Issued(ApplyClaim)
    /\ InSeq("_create_fileserver", returned)

\* the poll ran out of tries
C22_WitnessTimeout == AddressPollTimedOut /\ pc = "raised"

\* the callbacks a run polls with
AddressProbes == {"_get_fileserver_ip", "_get_external_ip"}
Probes == AddressProbes \cup PodExitPolls

\* C23: every status-query probe used in a poll - file-server address,
\* ingress address, pod-exit check - tolerates a non-zero exit of its query
\* command: the probe reports 'not ready yet' and the poll goes on, it does
\* not end at once with that command's error.
C23_ProbesTolerateQueryFailure ==
    waitfor.callback \in Probes => waitfor.exc # "CalledProcessError"

\* the two address probes do tolerate it
C23_AddressProbesTolerate ==
    waitfor.callback \in AddressProbes => waitfor.exc # "CalledProcessError"

\* the teardown methods that issue `kubectl delete`, each with the number
\* of resources it deletes
Deletions ==
    [_destroy_nginx |-> 3, _destroy_jupyterhub |-> 5, _destroy_prepuller |-> 1,
     _destroy_fs_keepalive |-> 1, _destroy_fileserver |-> 6,
     _destroy_logging_components |-> 5]

RECURSIVE DeletionsOf(_)
DeletionsOf(calls) ==
    IF calls = <<>> THEN 0
    ELSE (IF Head(calls) \in DOMAIN Deletions THEN Deletions[Head(calls)]
          ELSE 0) + DeletionsOf(Tail(calls))

\* the per-resource `kubectl delete` commands issued
ResourceDeletes ==
    {n \in 1..Len(cmds) : /\ cmds[n][1] = "kubectl"
                          /\ cmds[n][2] = "delete"
                          /\ cmds[n][3] # "namespace"}

\* C24: in an undeploy a non-zero exit of a per-resource `kubectl delete`
\* of the nginx, JupyterHub, prepuller, fs-keepalive, file-server or
\* logging teardown never raises and never keeps the remaining deletes of
\* that step, or the later steps, from being issued: every step entered
\* has issued all its deletes, and such a step raises only through its
\* pod-exit poll.
C24_DeletesTolerateAbsent ==
    mode = "undeploy"
        => /\ Cardinality(ResourceDeletes) = DeletionsOf(steps)
           /\ \A c \in nonzero : Issued(c)
           /\ (Raising /\ steps # <<>>
                 /\ steps[Len(steps)] \in DOMAIN Deletions)
                 => /\ waitfor.exc # None
                    /\ waitfor.callback \in PodExitPolls
                    /\ PollingMethod(waitfor.callback) = steps[Len(steps)]

\* every delete of the file server exited non-zero, and the method returned
\* and the logging teardown is next
C24_Witness ==
    /\ mode = "undeploy"
    /\ Cardinality(nonzero) = Deletions["_destroy_fileserver"]
    /\ InSeq("_destroy_fileserver", returned)
    /\ pc = "_destroy_logging_components"

\* the number of tries each poll is given
Budget(callback) ==
    IF callback = "_get_fileserver_ip" THEN 10
    ELSE IF callback = "_get_external_ip" THEN 30
    ELSE 60

\* the budgets themselves: no poll makes more calls than its budget, and
\* the teardown budget is the largest
C25_Budgets ==
    /\ waitfor.callback \in Probes
          => /\ waitfor.tries = Budget(waitfor.callback)
             /\ waitfor.calls >= 1
             /\ waitfor.calls <= waitfor.tries
    /\ Budget("_check_fileserver_gone") > Budget("_get_external_ip")
    /\ Budget("_get_external_ip") > Budget("_get_fileserver_ip")

\* C25: every poll is bounded - at most 10 probe calls for the file-server
\* address, 30 for the ingress address, 60 for each teardown pod-exit
\* check - and every poll ends in either a result or a timeout error.
C25_PollsBounded ==
    /\ C25_Budgets
    /\ waitfor.callback \in Probes
          => \/ waitfor.exc = None /\ Truthy(waitfor.rc)
             \/ waitfor.exc = "RuntimeError" /\ waitfor.calls = waitfor.tries

(***************************************************************************)
(* Properties of the cache, the working directory and the manifests        *)
(***************************************************************************)
\* the keys _substitute encodes with encode_value
EncodedValues ==
    {SubstituteArgs[n][2] : n \in {m \in 1..Len(SubstituteArgs) :
                                      SubstituteArgs[m][1] = "encode_value"}}

\* the cache an earlier deployment is taken to have left is the one its
\* rendering leaves
EarlierCacheIsRendered ==
    filesystem = FullFilesystem => EarlierCache = CacheLeftBy(EarlierParams)

\* C26: the cache of encodings is scoped to one run: what encode_value
\* returns for a key in a run is the encoding of that run's value of the
\* key, never the encoding an earlier run of the same process cached for
\* another value.
C26_CacheScopedToRun ==
    (mode = "deploy" /\ InSeq("_substitute_templates", returned))
        => \A key \in EncodedValues :
              /\ key \in DOMAIN params
              /\ b64_cache[key] = b64encode(params[key])

\* a command that changes the cluster or the DNS zone
Mutates(c) ==
    \/ c[1] = "kubectl" /\ c[2] \in {"create", "delete"}
    \/ c[1] = "gcloud" /\ \E n \in 1..Len(c) : c[n] \in {"create", "delete"}
    \/ c[1] = "aws" /\ \E n \in 1..Len(c) :
                          c[n] = "change-resource-record-sets"

\* no creation step was entered and no command that changes the cluster or
\* the DNS zone was issued
NothingMutated ==
    /\ \A n \in 1..Len(steps) : ~InSeq(steps[n], DeployOrder)
    /\ \A n \in 1..Len(cmds) : ~Mutates(cmds[n])
    /\ changeset = NoChangeset

\* C27: with config_only set, deploy only generates the configuration: no
\* cluster-mutating step is ever executed, whether or not a directory was
\* supplied.
C27_ConfigOnlyMutatesNothing ==
    (mode = "deploy" /\ config_only) => NothingMutated

\* with a directory of the caller config_only is honoured
C27_ConfigOnlyInDirectory ==
    (mode = "deploy" /\ config_only /\ directory = WorkDir) => NothingMutated

\* the "deployment" subdirectory of the caller's directory was there before
\* the run
DeploymentWasThere ==
    /\ mode = "deploy"
    /\ directory = WorkDir
    /\ Deployment(WorkDir) \in dirs
    /\ ~InSeq("_copy_deployment_files", steps)

GitClone == <<"git", "clone", JUPYTERLAB_REPO_URL>>

\* C28: when the directory given to deploy already has a "deployment"
\* subdirectory, configuration generation is skipped entirely - no clone,
\* no rendering, no snapshot - and the manifests there are used as they
\* are; a directory of the caller is never removed; a run without one
\* removes its temporary directory on exit.
C28_DirectoryReuse ==
    /\ DeploymentWasThere
          => /\ ~Issued(GitClone)
             /\ \A call \in {"_get_repo", "_substitute_templates",
                             "_rename_fileserver_template",
                             "_save_deployment_yml"} : ~InSeq(call, steps)
             /\ encode_log = <<>>
             /\ snapshot = NoSnapshot
             /\ manifests = GeneratedEarlier
    /\ (directory = WorkDir /\ InSeq("_create_deployment", steps))
          => WorkDir \in dirs
    /\ (Ended /\ mode = "deploy")
          => TempDir \notin dirs /\ Deployment(TempDir) \notin dirs
    /\ TempDir \in dirs => directory = TempDir

\* a deployment made from the manifests that were there
C28_Witness ==
    /\ DeploymentWasThere
    /\ InSeq("_create_deployment", steps)
    /\ InSeq("_create_nginx", returned)
    /\ pc = "done"

\* a run in a temporary directory ended, by raising after the manifests
\* were rendered there
C28_WitnessTemp ==
    /\ mode = "deploy"
    /\ pc = "raised"
    /\ InSeq("_save_deployment_yml", returned)
    /\ directory = TempDir

\* every name of the text was replaced by a value, but for
\* NFS_SERVER_IP_ADDRESS, which is still its placeholder
RenderedButAddress(text) ==
    \A name \in DOMAIN text :
        IF name = "NFS_SERVER_IP_ADDRESS"
        THEN text[name] = Placeholder("NFS_SERVER_IP_ADDRESS")
        ELSE "ph" \notin DOMAIN text[name]

\* _substitute_templates returns in this step
TemplatesSubstituted ==
    /\ pc = "_substitute_templates"
    /\ returned' = Append(returned, "_substitute_templates")

\* C29: after configuration generation every *.template.yml found has been
\* replaced by a rendered .yml of the same base name and deleted, but for
\* the file server's persistent-volume manifest, which is renamed back to
\* .template.yml and still carries the literal {{NFS_SERVER_IP_ADDRESS}}.
C29_TemplatesRendered ==
    /\ [][TemplatesSubstituted
            => \A f \in DOMAIN manifests :
                  IF IsTemplate(f)
                  THEN /\ f \notin DOMAIN manifests'
                       /\ DestFile(f) \in DOMAIN manifests'
                       /\ DOMAIN manifests'[DestFile(f)] = DOMAIN manifests[f]
                       /\ RenderedButAddress(manifests'[DestFile(f)])
                  ELSE /\ f \in DOMAIN manifests'
                       /\ manifests'[f] = manifests[f]]_vars
    /\ [](InSeq("_rename_fileserver_template", returned)
            => /\ \A f \in DOMAIN manifests :
                     IsTemplate(f) <=> f = <<FileserverPv, TemplateSuffix>>
               /\ <<FileserverPv, ".yml">> \notin DOMAIN manifests
               /\ <<FileserverPv, TemplateSuffix>> \in DOMAIN manifests
               /\ manifests[<<FileserverPv, TemplateSuffix>>]
                     ["NFS_SERVER_IP_ADDRESS"]
                     = Placeholder("NFS_SERVER_IP_ADDRESS")
               /\ \A f \in DOMAIN manifests : RenderedButAddress(manifests[f]))

\* the configuration was generated from a repository with more templates
\* than the file server's
C29_Witness ==
    /\ InSeq("_rename_fileserver_template", returned)
    /\ <<"jupyterhub/jld-hub-secrets", ".yml">> \in DOMAIN manifests
    /\ manifests[<<FileserverPv, TemplateSuffix>>]["CLUSTER_IDENTIFIER"]
          = Text(params["kubernetes_cluster_namespace"])

\* the files encode_file tried to open and could not
UnreadableOpens ==
    {n \in 1..Len(encode_log) :
        /\ encode_log[n][1] = "open"
        /\ params[encode_log[n][2]] \notin DOMAIN filesystem}

\* C30: encode_file on a key whose path names no readable file - the empty
\* path of a disabled logging group included - never raises: it returns
\* '', '' is what the cache holds for the path, and rendering goes on.
C30_UnreadableFileEncodesEmpty ==
    /\ \A n \in UnreadableOpens :
          LET cp == params[encode_log[n][2]] \o "_contents"
          IN  /\ cp \in DOMAIN b64_cache
              /\ b64_cache[cp] = ""
              /\ exc # "FileNotFoundError"
    /\ (UnreadableOpens # {} /\ exc = None)
          => /\ InSeq("_substitute_templates", returned)
             /\ \A f \in DOMAIN manifests :
                   IsTemplate(f) => InSeq("_rename_fileserver_template",
                                          returned)

\* the certificate is missing and the logging group is disabled (its paths
\* are empty), and the templates were rendered all the same
C30_Witness ==
    /\ InSeq("_substitute_templates", returned)
    /\ \E n \in UnreadableOpens : encode_log[n][2] = "tls_cert"
    /\ \E n \in UnreadableOpens : /\ encode_log[n][2] = "beats_ca"
                                  /\ params["beats_ca"] = ""
    /\ b64_cache["/tls/cert.pem_contents"] = ""

(***************************************************************************)
(* The hosted zone of the hostname                                         *)
(***************************************************************************)
ListHostedZones == <<"aws", "route53", "list-hosted-zones">>

\* a command that makes another context the current one
SwitchesContext(c) ==
    \/ c[1] = "kubectl" /\ c[2] = "config"
                        /\ c[3] \in {"use-context", "set-context"}
    \/ c[1] = "gcloud" /\ InSeq("get-credentials", c)

\* the listed zones that carry the name of the hostname's parent domain
ParentZones ==
    {n \in 1..Len(hosted_zones) : hosted_zones[n].Name = "example.org."}

ZoneIdSet == "zoneid" \in DOMAIN params /\ params["zoneid"] # None

\* C31: the zone id is that of the first listed zone named after the
\* hostname without its first label; when no listed zone has that name the
\* run fails with a RuntimeError before the current context is captured or
\* switched and before any command that creates or deletes a cluster, a
\* namespace, a manifest or a DNS record is issued.
C31_ZoneBeforeCluster ==
    /\ params["hostname"] = Hostname
    /\ ParentDomain(Hostname) = "example.org"
    /\ ZoneIdSet =>
          /\ ParentZones # {}
          /\ \E n \in ParentZones :
                /\ \A m \in ParentZones : n <= m
                /\ params["zoneid"] = hosted_zones[n].Id[3]
    /\ ParentZones = {} =>
          /\ ~ZoneIdSet
          /\ \A n \in 1..Len(cmds) :
                ~Mutates(cmds[n]) /\ ~SwitchesContext(cmds[n])
          /\ ~Issued(CurrentContextCmd)
          /\ original_context = None
          /\ current_context = OtherContext
          /\ changeset = NoChangeset
          /\ Issued(ListHostedZones) => pc = "raised" /\ exc = "RuntimeError"
    /\ \A n \in 1..Len(cmds) :
          (Mutates(cmds[n]) \/ SwitchesContext(cmds[n]))
              => /\ ZoneIdSet
                 /\ Position(ListHostedZones) < n

\* a deployment whose configuration was generated and whose hostname has no
\* zone among the listed ones failed at the lookup
C31_Witness ==
    /\ mode = "deploy"
    /\ hosted_zones # <<>>
    /\ ParentZones = {}
    /\ Issued(ListHostedZones)
    /\ Issued(<<"git", "clone", JUPYTERLAB_REPO_URL>>)
    /\ pc = "raised"

\* the zone of the parent domain was found behind the zone of the hostname
\* itself, and the DNS record was changed in it
C31_WitnessFound ==
    /\ Len(hosted_zones) = 2
    /\ hosted_zones[1].Name = "demo.example.org."
    /\ ZoneIdSet
    /\ params["zoneid"] = ZoneId
    /\ changeset # NoChangeset
    /\ pc = "done"

(***************************************************************************)
(* The crypto key                                                          *)
(***************************************************************************)
CryptoKeySet(p) == "crypto_key" \in DOMAIN p /\ p["crypto_key"] # ""

\* C32: a crypto_key that the parameter set holds is kept: no step of the
\* run replaces it, so a key is generated only when there is none, at most
\* once per run.
C32_CryptoKeyKept ==
    [][CryptoKeySet(params)
          => /\ CryptoKeySet(params')
             /\ params'["crypto_key"] = params["crypto_key"]]_vars

\* the rendered manifests that refer to the crypto key
CarryCryptoKey ==
    {f \in DOMAIN manifests :
        /\ ~IsTemplate(f)
        /\ "JUPYTERHUB_CRYPTO_KEY" \in DOMAIN manifests[f]}

\* the crypto key is assigned by _substitute_templates alone, which runs at
\* most once in a run, and a manifest rendered in the run carries the
\* encoding of that key
C32_OneKeyPerRun ==
    /\ [][(CryptoKeySet(params') /\ ~(CryptoKeySet(params)
                                      /\ params'["crypto_key"]
                                            = params["crypto_key"]))
            => /\ pc = "_substitute_templates"
               /\ params'["crypto_key"] = CryptoKey]_vars
    /\ [](Cardinality({n \in 1..Len(steps) :
                          steps[n] = "_substitute_templates"}) <= 1)
    /\ []((mode = "deploy" /\ InSeq("_substitute_templates", returned))
            => /\ CryptoKeySet(params)
               /\ \A f \in CarryCryptoKey :
                     manifests[f]["JUPYTERHUB_CRYPTO_KEY"]
                        = Text(b64encode(params["crypto_key"])))

\* the parameter map came with a crypto_key and the hub's secrets were
\* rendered
C32_Witness ==
    /\ mode = "deploy"
    /\ InSeq("_substitute_templates", returned)
    /\ CarryCryptoKey # {}
    /\ snapshot.source # None

(***************************************************************************)
(* Parameters loaded from a YAML file                                      *)
(***************************************************************************)
PARAMETER_NAMES ==
    Range(REQUIRED_DEPLOYMENT_PARAMETER_NAMES)
        \cup {"kubernetes_cluster_namespace", "gke_zone", "gke_node_count",
              "gke_machine_type", "volume_size_gigabytes", "session_db_url",
              "shipper_name", "rabbitmq_pan_password", "rabbitmq_target_host",
              "rabbitmq_target_vhost", "firefly_admin_password"}

\* _set_params is about to load the parameter set from the YAML file
LoadsYaml == pc = "_set_params" /\ DOMAIN params = {} /\ yamlfile # None

\* C33: when the parameter set is loaded from a YAML file, _set_params
\* returns with the file's keys as the parameter set, whatever the keys
\* are, and the run goes on; a key outside PARAMETER_NAMES is only logged
\* as a warning.
C33_UnknownKeysOnlyWarn ==
    [][LoadsYaml
          => /\ params' \in YamlFiles
             /\ exc' = None
             /\ returned' = Append(returned, "_set_params")
             /\ pc' \notin {"raised", "_set_params"}
             /\ \A k \in DOMAIN params' \ PARAMETER_NAMES :
                   InSeq(<<"warn", "Unknown parameter '%s'!", k>>, logged')]_vars

\* however the file reads, loading it ends in the NameError of the loop
\* over the undefined name, and nothing is logged
C33_YamlLoadRaises ==
    [][LoadsYaml
          => /\ params' \in YamlFiles
             /\ pc' = "raised"
             /\ exc' = "NameError: name 'params' is not defined"
             /\ logged' = logged]_vars

\* a file with the documented keys alone was loaded
C33_Witness ==
    /\ yamlfile # None
    /\ params = FullParams
    /\ steps = <<"_set_params">>
    /\ pc = "raised"
====
